---- MODULE Spec2Model ----
(***************************************************************************)
(* A model of the two engines of ReceiptsHist:                             *)
(*   - query_engine.run_query   (natural language -> validated SQL)        *)
(*   - ai_scanner.scan_receipt  (image/PDF -> structured receipts)         *)
(* Text is modelled as a sequence of one-character strings, so that the    *)
(* textual checks of the code (strip, upper, startswith, substring test,   *)
(* the word-boundary regular expression) are computed character by         *)
(* character, as Python computes them.                                     *)
(***************************************************************************)
EXTENDS Integers, Sequences, FiniteSets, TLC

(***************************************************************************)
(* Characters and Python's str primitives                                  *)
(***************************************************************************)
LowerLetters == <<"a","b","c","d","e","f","g","h","i","j","k","l","m",
                  "n","o","p","q","r","s","t","u","v","w","x","y","z">>

UpperLetters == <<"A","B","C","D","E","F","G","H","I","J","K","L","M",
                  "N","O","P","Q","R","S","T","U","V","W","X","Y","Z">>

Digits == <<"0","1","2","3","4","5","6","7","8","9">>

Range(f) == {f[i] : i \in DOMAIN f}

\* str.strip() with no argument removes these
Whitespace == {" ", "\t", "\n", "\r"}

LowerSet == Range(LowerLetters)

UpperSet == Range(UpperLetters)

DigitSet == Range(Digits)

\* the characters the regular expression class \w matches
WordChars == LowerSet \cup UpperSet \cup DigitSet \cup {"_"}

IsWordChar(c) == c \in WordChars

UpperOf == [c \in LowerSet |-> UpperLetters[CHOOSE i \in DOMAIN LowerLetters : LowerLetters[i] = c]]

LowerOf == [c \in UpperSet |-> LowerLetters[CHOOSE i \in DOMAIN UpperLetters : UpperLetters[i] = c]]

UpperChar(c) == IF c \in LowerSet THEN UpperOf[c] ELSE c

LowerChar(c) == IF c \in UpperSet THEN LowerOf[c] ELSE c

\* str.upper() / str.lower()
Upper(s) == [i \in DOMAIN s |-> UpperChar(s[i])]

Lower(s) == [i \in DOMAIN s |-> LowerChar(s[i])]

\* s[i:j] with 1-based inclusive bounds; empty when i > j
Slice(s, i, j) == IF i > j THEN <<>> ELSE SubSeq(s, i, j)

\* str.startswith(p)
StartsWith(s, p) == Len(p) <= Len(s) /\ SubSeq(s, 1, Len(p)) = p

\* str.endswith(p)
EndsWith(s, p) == Len(p) <= Len(s) /\ SubSeq(s, Len(s) - Len(p) + 1, Len(s)) = p

\* whether p occurs in s at position i
OccursAt(s, p, i) == i >= 1 /\ i + Len(p) - 1 <= Len(s) /\ SubSeq(s, i, i + Len(p) - 1) = p

\* the Python test  p in s
Contains(s, p) == \E i \in 1..(Len(s) + 1) : OccursAt(s, p, i)

\* str.lstrip(): drop leading characters of the set cs
LStripSet(s, cs) ==
    LET keep == {i \in DOMAIN s : s[i] \notin cs}
    IN  IF keep = {} THEN <<>>
        ELSE Slice(s, CHOOSE i \in keep : \A j \in keep : i <= j, Len(s))

\* str.rstrip(): drop trailing characters of the set cs
RStripSet(s, cs) ==
    LET keep == {i \in DOMAIN s : s[i] \notin cs}
    IN  IF keep = {} THEN <<>>
        ELSE Slice(s, 1, CHOOSE i \in keep : \A j \in keep : i >= j)

\* str.strip()
Strip(s) == LStripSet(RStripSet(s, Whitespace), Whitespace)

\* str.rstrip(";")
RStripSemi(s) == RStripSet(s, {";"})

\* str.split(sep) for a one-character separator: the list of pieces
RECURSIVE SplitOn(_, _)
SplitOn(s, sep) ==
    LET hits == {i \in DOMAIN s : s[i] = sep}
    IN  IF hits = {} THEN <<s>>
        ELSE LET i == CHOOSE h \in hits : \A k \in hits : h <= k
             IN  <<Slice(s, 1, i - 1)>> \o SplitOn(Slice(s, i + 1, Len(s)), sep)

\* sep.join(parts)
RECURSIVE JoinWith(_, _)
JoinWith(parts, sep) ==
    IF Len(parts) = 0 THEN <<>>
    ELSE IF Len(parts) = 1 THEN parts[1]
    ELSE parts[1] \o <<sep>> \o JoinWith(Tail(parts), sep)

\* the concatenation of a list of texts
RECURSIVE Concat(_)
Concat(parts) == IF Len(parts) = 0 THEN <<>> ELSE parts[1] \o Concat(Tail(parts))

\* s[:n]
Take(s, n) == IF Len(s) <= n THEN s ELSE SubSeq(s, 1, n)

Min(a, b) == IF a <= b THEN a ELSE b

(***************************************************************************)
(* query_engine.py: the SQL safety validator                               *)
(***************************************************************************)

\* the alternatives of the DANGEROUS_KEYWORDS pattern
DangerousWords ==
    {<<"I","N","S","E","R","T">>,
     <<"U","P","D","A","T","E">>,
     <<"D","E","L","E","T","E">>,
     <<"D","R","O","P">>,
     <<"A","L","T","E","R">>,
     <<"C","R","E","A","T","E">>,
     <<"T","R","U","N","C","A","T","E">>,
     <<"E","X","E","C">>,
     <<"E","X","E","C","U","T","E">>,
     <<"G","R","A","N","T">>,
     <<"R","E","V","O","K","E">>}

T_SELECT == <<"S","E","L","E","C","T">>
T_LIMIT == <<"L","I","M","I","T">>
\* the backquote character (a TLA+ string cannot hold it)
Backquote == "<backquote>"

T_FENCE == <<Backquote, Backquote, Backquote>>
T_SUM == <<"S","U","M","(">>
T_TOTAL == <<"T","O","T","A","L">>
T_UserIdParam == <<":","u","s","e","r","_","i","d">>
T_receipts == <<"r","e","c","e","i","p","t","s">>

\* whether position i of s (1..Len(s)) holds a \w character; outside the text: no
WordAt(s, i) == i >= 1 /\ i <= Len(s) /\ IsWordChar(s[i])

\* the regular expression assertion \b just before position i
WordBoundary(s, i) == WordAt(s, i - 1) # WordAt(s, i)

\* \bw\b with re.IGNORECASE matches s at position i (up is s in upper case)
WordMatchAt(s, up, w, i) ==
    /\ OccursAt(up, w, i)
    /\ WordBoundary(s, i)
    /\ WordBoundary(s, i + Len(w))

\* re.search of \b(w1|w2|...)\b with re.IGNORECASE
WordSearch(s, ws) ==
    LET up == Upper(s)
    IN  \E i \in DOMAIN s : \E w \in ws : WordMatchAt(s, up, w, i)

\* the pattern without its \b assertions: a plain substring search
DangerousSubstring(s) == \E w \in DangerousWords : Contains(Upper(s), w)

\* DANGEROUS_KEYWORDS.search(s)
DANGEROUS_KEYWORDS(s) == WordSearch(s, DangerousWords)

MAX_ROWS == 500

NoError == "None"

MustBeSelect == "Query must be a SELECT statement."

ForbiddenKeywords == "Query contains forbidden keywords."

\* _validate_sql: the pair (valid, error)
ValidateSql(sql) ==
    LET sql_stripped == RStripSemi(Strip(sql))
    IN  IF ~StartsWith(Upper(sql_stripped), T_SELECT)
        THEN [valid |-> FALSE, error |-> MustBeSelect]
        ELSE IF DANGEROUS_KEYWORDS(sql_stripped)
        THEN [valid |-> FALSE, error |-> ForbiddenKeywords]
        ELSE [valid |-> TRUE, error |-> NoError]

\* run_query, "Strip markdown fences if present": content.strip(), then, when the
\* text starts with a fence, drop every line whose strip() starts with a fence
IsFenceLine(l) == StartsWith(Strip(l), T_FENCE)

NotFenceLine(l) == ~IsFenceLine(l)

StripFences(content) ==
    LET generated == Strip(content)
    IN  IF StartsWith(generated, T_FENCE)
        THEN Strip(JoinWith(SelectSeq(SplitOn(generated, "\n"), NotFenceLine), "\n"))
        ELSE generated

\* the digits of MAX_ROWS, as f" LIMIT {MAX_ROWS}" prints them
RECURSIVE DecimalOf(_)
DecimalOf(n) ==
    IF n < 10 THEN <<Digits[n + 1]>> ELSE DecimalOf(n \div 10) \o <<Digits[(n % 10) + 1]>>

\* run_query, "Ensure LIMIT exists"
EnsureLimit(sql) ==
    IF ~Contains(Upper(sql), T_LIMIT)
    THEN RStripSemi(sql) \o <<" ">> \o T_LIMIT \o <<" ">> \o DecimalOf(MAX_ROWS)
    ELSE sql

(***************************************************************************)
(* run_query: error mapping                                                *)
(***************************************************************************)
P_pattern == <<"p","a","t","t","e","r","n">>
P_did_not_match == <<"d","i","d"," ","n","o","t"," ","m","a","t","c","h">>
P_no_such_column == <<"n","o"," ","s","u","c","h"," ","c","o","l","u","m","n">>
P_does_not_exist == <<"d","o","e","s"," ","n","o","t"," ","e","x","i","s","t">>
P_syntax_error == <<"s","y","n","t","a","x"," ","e","r","r","o","r">>
P_operator_does_not_exist ==
    <<"o","p","e","r","a","t","o","r"," ","d","o","e","s"," ","n","o","t"," ",
      "e","x","i","s","t">>

FriendlyDate == "The query had a date or format error. Try rephrasing (e.g., 'last month' instead of specific dates)."

FriendlyColumn == "The query tried to use an invalid column or function. Try a simpler question."

FriendlySyntax == "The generated SQL had a syntax error. Try rephrasing your question."

FriendlyType == "Type mismatch in query. Try rephrasing your question."

QueryFailed == "Query failed: "

FriendlyPrefixLen == 100

AuditPrefixLen == 200

\* the if/elif chain that maps str(e) to the message shown to the user
FriendlyError(error_msg) ==
    LET low == Lower(error_msg)
    IN  IF Contains(low, P_pattern) \/ Contains(low, P_did_not_match)
        THEN [msg |-> FriendlyDate, detail |-> <<>>]
        ELSE IF Contains(low, P_no_such_column) \/ Contains(low, P_does_not_exist)
        THEN [msg |-> FriendlyColumn, detail |-> <<>>]
        ELSE IF Contains(low, P_syntax_error)
        THEN [msg |-> FriendlySyntax, detail |-> <<>>]
        ELSE IF Contains(low, P_operator_does_not_exist)
        THEN [msg |-> FriendlyType, detail |-> <<>>]
        ELSE [msg |-> QueryFailed, detail |-> Take(error_msg, FriendlyPrefixLen)]

(***************************************************************************)
(* run_query: the prompt of the storage backend's dialect                  *)
(***************************************************************************)
U_default ==
    <<"s", "q", "l", "i", "t", "e", ":", "/", "/", "/", "r", "e", "c", "e", "i", "p", "t", "s",
      ".", "d", "b">>

U_render ==
    <<"p", "o", "s", "t", "g", "r", "e", "s", ":", "/", "/", "a", "p", "p", ":", "p", "w", "@",
      "d", "b", ".", "h", "o", "s", "t", "/", "r", "e", "c", "e", "i", "p", "t", "s">>

U_driver ==
    <<"p", "o", "s", "t", "g", "r", "e", "s", "q", "l", "+", "p", "s", "y", "c", "o", "p", "g",
      "2", ":", "/", "/", "a", "p", "p", "@", "d", "b", ".", "h", "o", "s", "t", "/", "r", "e",
      "c", "e", "i", "p", "t", "s">>

U_sqlite_path ==
    <<"s", "q", "l", "i", "t", "e", ":", "/", "/", "/", "/", "d", "a", "t", "a", "/", "p", "o",
      "s", "t", "g", "r", "e", "s", "-", "e", "x", "p", "o", "r", "t", "/", "r", "e", "c", "e",
      "i", "p", "t", "s", ".", "d", "b">>

\* what DATABASE_URL is set to; U_default where it is not set
DatabaseUrls == {U_default, U_render, U_driver, U_sqlite_path}

T_postgres_scheme == <<"p", "o", "s", "t", "g", "r", "e", "s", ":", "/", "/">>
T_postgresql_scheme == <<"p", "o", "s", "t", "g", "r", "e", "s", "q", "l", ":", "/", "/">>
T_postgresql == <<"p", "o", "s", "t", "g", "r", "e", "s", "q", "l">>
T_postgres == <<"p", "o", "s", "t", "g", "r", "e", "s">>

\* app.config["SQLALCHEMY_DATABASE_URI"]: "Fix Render postgres:// -> postgresql://"
DatabaseUri(url) ==
    IF StartsWith(url, T_postgres_scheme)
    THEN T_postgresql_scheme \o Slice(url, Len(T_postgres_scheme) + 1, Len(url))
    ELSE url

\* _is_postgresql
IsPostgresql(uri) == Contains(Lower(uri), T_postgresql) \/ Contains(Lower(uri), T_postgres)

\* "prompt_template = QUERY_PROMPT_POSTGRES if _is_postgresql() else QUERY_PROMPT_SQLITE"
PromptTemplate(uri) ==
    IF IsPostgresql(uri) THEN "QUERY_PROMPT_POSTGRES" ELSE "QUERY_PROMPT_SQLITE"

\* QUERY_PROMPT_SQLITE: its lines about the dialect, the dates and the fields to fill;
\* the other lines are the same in both prompts
QUERY_PROMPT_SQLITE ==
    <<
      <<"{", "s", "c", "h", "e", "m", "a", "}">>,
      <<"I", "M", "P", "O", "R", "T", "A", "N", "T", ":", " ", "T", "h", "i", "s", " ", "d", "a",
        "t", "a", "b", "a", "s", "e", " ", "u", "s", "e", "s", " ", "S", "Q", "L", "i", "t", "e",
        ".", " ", "U", "s", "e", " ", "S", "Q", "L", "i", "t", "e", " ", "d", "a", "t", "e", " ",
        "f", "u", "n", "c", "t", "i", "o", "n", "s", " ", "o", "n", "l", "y", ".">>,
      <<"5", ".", " ", "F", "o", "r", " ", "d", "a", "t", "e", " ", "c", "a", "l", "c", "u", "l",
        "a", "t", "i", "o", "n", "s", ",", " ", "u", "s", "e", " ", "S", "Q", "L", "i", "t", "e",
        " ", "f", "u", "n", "c", "t", "i", "o", "n", "s", ":">>,
      <<"-", " ", "C", "u", "r", "r", "e", "n", "t", " ", "d", "a", "t", "e", ":", " ", "D", "A",
        "T", "E", "(", "'", "n", "o", "w", "'", ")">>,
      <<"-", " ", "S", "u", "b", "t", "r", "a", "c", "t", " ", "d", "a", "y", "s", ":", " ", "D",
        "A", "T", "E", "(", "'", "n", "o", "w", "'", ",", " ", "'", "-", "3", "0", " ", "d", "a",
        "y", "s", "'", ")">>,
      <<"-", " ", "S", "u", "b", "t", "r", "a", "c", "t", " ", "m", "o", "n", "t", "h", "s", ":",
        " ", "D", "A", "T", "E", "(", "'", "n", "o", "w", "'", ",", " ", "'", "-", "1", " ", "m",
        "o", "n", "t", "h", "'", ")">>,
      <<"-", " ", "S", "t", "a", "r", "t", " ", "o", "f", " ", "c", "u", "r", "r", "e", "n", "t",
        " ", "m", "o", "n", "t", "h", ":", " ", "D", "A", "T", "E", "(", "'", "n", "o", "w", "'",
        ",", " ", "'", "s", "t", "a", "r", "t", " ", "o", "f", " ", "m", "o", "n", "t", "h", "'",
        ")">>,
      <<"-", " ", "S", "t", "a", "r", "t", " ", "o", "f", " ", "l", "a", "s", "t", " ", "m", "o",
        "n", "t", "h", ":", " ", "D", "A", "T", "E", "(", "'", "n", "o", "w", "'", ",", " ", "'",
        "s", "t", "a", "r", "t", " ", "o", "f", " ", "m", "o", "n", "t", "h", "'", ",", " ", "'",
        "-", "1", " ", "m", "o", "n", "t", "h", "'", ")">>,
      <<"-", " ", "E", "x", "t", "r", "a", "c", "t", " ", "y", "e", "a", "r", ":", " ", "s", "t",
        "r", "f", "t", "i", "m", "e", "(", "'", "%", "Y", "'", ",", " ", "r", "e", "c", "e", "i",
        "p", "t", "_", "d", "a", "t", "e", ")">>,
      <<"-", " ", "E", "x", "t", "r", "a", "c", "t", " ", "m", "o", "n", "t", "h", ":", " ", "s",
        "t", "r", "f", "t", "i", "m", "e", "(", "'", "%", "m", "'", ",", " ", "r", "e", "c", "e",
        "i", "p", "t", "_", "d", "a", "t", "e", ")">>,
      <<"-", " ", "L", "a", "s", "t", " ", "3", "0", " ", "d", "a", "y", "s", ":", " ", "r", "e",
        "c", "e", "i", "p", "t", "_", "d", "a", "t", "e", " ", ">", "=", " ", "D", "A", "T", "E",
        "(", "'", "n", "o", "w", "'", ",", " ", "'", "-", "3", "0", " ", "d", "a", "y", "s", "'",
        ")">>,
      <<"-", " ", "L", "a", "s", "t", " ", "m", "o", "n", "t", "h", ":", " ", "r", "e", "c", "e",
        "i", "p", "t", "_", "d", "a", "t", "e", " ", ">", "=", " ", "D", "A", "T", "E", "(", "'",
        "n", "o", "w", "'", ",", " ", "'", "s", "t", "a", "r", "t", " ", "o", "f", " ", "m", "o",
        "n", "t", "h", "'", ",", " ", "'", "-", "1", " ", "m", "o", "n", "t", "h", "'", ")", " ",
        "A", "N", "D", " ", "r", "e", "c", "e", "i", "p", "t", "_", "d", "a", "t", "e", " ", "<",
        " ", "D", "A", "T", "E", "(", "'", "n", "o", "w", "'", ",", " ", "'", "s", "t", "a", "r",
        "t", " ", "o", "f", " ", "m", "o", "n", "t", "h", "'", ")">>,
      <<"-", " ", "T", "h", "i", "s", " ", "y", "e", "a", "r", ":", " ", "r", "e", "c", "e", "i",
        "p", "t", "_", "d", "a", "t", "e", " ", ">", "=", " ", "D", "A", "T", "E", "(", "'", "n",
        "o", "w", "'", ",", " ", "'", "s", "t", "a", "r", "t", " ", "o", "f", " ", "y", "e", "a",
        "r", "'", ")">>,
      <<"T", "o", "d", "a", "y", "'", "s", " ", "d", "a", "t", "e", ":", " ", "{", "t", "o", "d",
        "a", "y", "}">>,
      <<"U", "s", "e", "r", " ", "q", "u", "e", "s", "t", "i", "o", "n", ":", " ", "{", "q", "u",
        "e", "s", "t", "i", "o", "n", "}">>
    >>

\* QUERY_PROMPT_POSTGRES, likewise
QUERY_PROMPT_POSTGRES ==
    <<
      <<"{", "s", "c", "h", "e", "m", "a", "}">>,
      <<"I", "M", "P", "O", "R", "T", "A", "N", "T", ":", " ", "T", "h", "i", "s", " ", "d", "a",
        "t", "a", "b", "a", "s", "e", " ", "u", "s", "e", "s", " ", "P", "o", "s", "t", "g", "r",
        "e", "S", "Q", "L", ".", " ", "U", "s", "e", " ", "P", "o", "s", "t", "g", "r", "e", "S",
        "Q", "L", " ", "d", "a", "t", "e", " ", "f", "u", "n", "c", "t", "i", "o", "n", "s", " ",
        "o", "n", "l", "y", ".">>,
      <<"5", ".", " ", "F", "o", "r", " ", "d", "a", "t", "e", " ", "c", "a", "l", "c", "u", "l",
        "a", "t", "i", "o", "n", "s", ",", " ", "u", "s", "e", " ", "P", "o", "s", "t", "g", "r",
        "e", "S", "Q", "L", " ", "f", "u", "n", "c", "t", "i", "o", "n", "s", ":">>,
      <<"-", " ", "C", "u", "r", "r", "e", "n", "t", " ", "d", "a", "t", "e", ":", " ", "C", "U",
        "R", "R", "E", "N", "T", "_", "D", "A", "T", "E">>,
      <<"-", " ", "S", "u", "b", "t", "r", "a", "c", "t", " ", "d", "a", "y", "s", ":", " ", "C",
        "U", "R", "R", "E", "N", "T", "_", "D", "A", "T", "E", " ", "-", " ", "I", "N", "T", "E",
        "R", "V", "A", "L", " ", "'", "3", "0", " ", "d", "a", "y", "s", "'">>,
      <<"-", " ", "S", "u", "b", "t", "r", "a", "c", "t", " ", "m", "o", "n", "t", "h", "s", ":",
        " ", "C", "U", "R", "R", "E", "N", "T", "_", "D", "A", "T", "E", " ", "-", " ", "I", "N",
        "T", "E", "R", "V", "A", "L", " ", "'", "1", " ", "m", "o", "n", "t", "h", "'">>,
      <<"-", " ", "S", "t", "a", "r", "t", " ", "o", "f", " ", "c", "u", "r", "r", "e", "n", "t",
        " ", "m", "o", "n", "t", "h", ":", " ", "D", "A", "T", "E", "_", "T", "R", "U", "N", "C",
        "(", "'", "m", "o", "n", "t", "h", "'", ",", " ", "C", "U", "R", "R", "E", "N", "T", "_",
        "D", "A", "T", "E", ")">>,
      <<"-", " ", "S", "t", "a", "r", "t", " ", "o", "f", " ", "l", "a", "s", "t", " ", "m", "o",
        "n", "t", "h", ":", " ", "D", "A", "T", "E", "_", "T", "R", "U", "N", "C", "(", "'", "m",
        "o", "n", "t", "h", "'", ",", " ", "C", "U", "R", "R", "E", "N", "T", "_", "D", "A", "T",
        "E", " ", "-", " ", "I", "N", "T", "E", "R", "V", "A", "L", " ", "'", "1", " ", "m", "o",
        "n", "t", "h", "'", ")">>,
      <<"-", " ", "E", "n", "d", " ", "o", "f", " ", "l", "a", "s", "t", " ", "m", "o", "n", "t",
        "h", ":", " ", "D", "A", "T", "E", "_", "T", "R", "U", "N", "C", "(", "'", "m", "o", "n",
        "t", "h", "'", ",", " ", "C", "U", "R", "R", "E", "N", "T", "_", "D", "A", "T", "E", ")",
        " ", "-", " ", "I", "N", "T", "E", "R", "V", "A", "L", " ", "'", "1", " ", "d", "a", "y",
        "'">>,
      <<"-", " ", "E", "x", "t", "r", "a", "c", "t", " ", "y", "e", "a", "r", ":", " ", "E", "X",
        "T", "R", "A", "C", "T", "(", "Y", "E", "A", "R", " ", "F", "R", "O", "M", " ", "r", "e",
        "c", "e", "i", "p", "t", "_", "d", "a", "t", "e", ")">>,
      <<"-", " ", "E", "x", "t", "r", "a", "c", "t", " ", "m", "o", "n", "t", "h", ":", " ", "E",
        "X", "T", "R", "A", "C", "T", "(", "M", "O", "N", "T", "H", " ", "F", "R", "O", "M", " ",
        "r", "e", "c", "e", "i", "p", "t", "_", "d", "a", "t", "e", ")">>,
      <<"-", " ", "L", "a", "s", "t", " ", "3", "0", " ", "d", "a", "y", "s", ":", " ", "r", "e",
        "c", "e", "i", "p", "t", "_", "d", "a", "t", "e", " ", ">", "=", " ", "C", "U", "R", "R",
        "E", "N", "T", "_", "D", "A", "T", "E", " ", "-", " ", "I", "N", "T", "E", "R", "V", "A",
        "L", " ", "'", "3", "0", " ", "d", "a", "y", "s", "'">>,
      <<"-", " ", "L", "a", "s", "t", " ", "m", "o", "n", "t", "h", ":", " ", "r", "e", "c", "e",
        "i", "p", "t", "_", "d", "a", "t", "e", " ", ">", "=", " ", "D", "A", "T", "E", "_", "T",
        "R", "U", "N", "C", "(", "'", "m", "o", "n", "t", "h", "'", ",", " ", "C", "U", "R", "R",
        "E", "N", "T", "_", "D", "A", "T", "E", " ", "-", " ", "I", "N", "T", "E", "R", "V", "A",
        "L", " ", "'", "1", " ", "m", "o", "n", "t", "h", "'", ")", " ", "A", "N", "D", " ", "r",
        "e", "c", "e", "i", "p", "t", "_", "d", "a", "t", "e", " ", "<", " ", "D", "A", "T", "E",
        "_", "T", "R", "U", "N", "C", "(", "'", "m", "o", "n", "t", "h", "'", ",", " ", "C", "U",
        "R", "R", "E", "N", "T", "_", "D", "A", "T", "E", ")">>,
      <<"-", " ", "T", "h", "i", "s", " ", "y", "e", "a", "r", ":", " ", "r", "e", "c", "e", "i",
        "p", "t", "_", "d", "a", "t", "e", " ", ">", "=", " ", "D", "A", "T", "E", "_", "T", "R",
        "U", "N", "C", "(", "'", "y", "e", "a", "r", "'", ",", " ", "C", "U", "R", "R", "E", "N",
        "T", "_", "D", "A", "T", "E", ")">>,
      <<"-", " ", "T", "h", "i", "s", " ", "m", "o", "n", "t", "h", ":", " ", "r", "e", "c", "e",
        "i", "p", "t", "_", "d", "a", "t", "e", " ", ">", "=", " ", "D", "A", "T", "E", "_", "T",
        "R", "U", "N", "C", "(", "'", "m", "o", "n", "t", "h", "'", ",", " ", "C", "U", "R", "R",
        "E", "N", "T", "_", "D", "A", "T", "E", ")">>,
      <<"T", "o", "d", "a", "y", "'", "s", " ", "d", "a", "t", "e", ":", " ", "{", "t", "o", "d",
        "a", "y", "}">>,
      <<"U", "s", "e", "r", " ", "q", "u", "e", "s", "t", "i", "o", "n", ":", " ", "{", "q", "u",
        "e", "s", "t", "i", "o", "n", "}">>
    >>

(***************************************************************************)
(* The storage collaborator behind db.session.execute: what a SQL engine   *)
(* answers to the text it is handed                                        *)
(***************************************************************************)
RECURSIVE ParseNat(_)
ParseNat(ds) ==
    IF Len(ds) = 0 THEN 0
    ELSE 10 * ParseNat(SubSeq(ds, 1, Len(ds) - 1))
         + ((CHOOSE i \in DOMAIN Digits : Digits[i] = ds[Len(ds)]) - 1)

\* the longest prefix of s made of digits
DigitPrefix(s) ==
    LET stop == {i \in DOMAIN s : s[i] \notin DigitSet}
    IN  IF stop = {} THEN s
        ELSE Slice(s, 1, (CHOOSE i \in stop : \A j \in stop : i <= j) - 1)

NoLimit == -1

\* the row count of the statement's LIMIT clause (the keyword LIMIT as a word,
\* followed by a number), NoLimit when it has none
StatementLimit(sql) ==
    LET up == Upper(sql)
        at == {i \in DOMAIN sql : WordMatchAt(sql, up, T_LIMIT, i)}
    IN  IF at = {} THEN NoLimit
        ELSE LET i == CHOOSE k \in at : \A j \in at : k <= j
                 ds == DigitPrefix(LStripSet(Slice(sql, i + Len(T_LIMIT), Len(sql)), Whitespace))
             IN  IF Len(ds) = 0 THEN NoLimit ELSE ParseNat(ds)

\* what the engine answers at all rather than raising a syntax error: here, a
\* statement whose first word is SELECT and whose LIMIT, if any, has its number
MayAnswer(sql) ==
    LET t == LStripSet(sql, Whitespace)
        up == Upper(t)
    IN  /\ StartsWith(up, T_SELECT)
        /\ ~WordAt(t, Len(T_SELECT) + 1)
        /\ (\E i \in DOMAIN sql : WordMatchAt(sql, Upper(sql), T_LIMIT, i))
               => StatementLimit(sql) # NoLimit

\* whether the statement filters on the bound parameter
ReferencesUserId(sql) == Contains(sql, T_UserIdParam)

\* the number of rows the engine returns: the rows the statement can see, cut
\* by the statement's own LIMIT
RowsReturned(sql, own, others) ==
    LET visible == IF ReferencesUserId(sql) THEN own ELSE own + others
        lim == StatementLimit(sql)
    IN  IF lim = NoLimit THEN visible ELSE Min(visible, lim)

\* whether an answer of n rows may / must hold a row owned by another user
MayReturnForeign(sql, n, others) == ~ReferencesUserId(sql) /\ others > 0 /\ n > 0

MustReturnForeign(n, own) == n > own

(***************************************************************************)
(* ai_scanner.py: from the model's text to JSON.  The model's text is a    *)
(* sequence of symbols: the structural characters of JSON, and whole       *)
(* lexemes (a key with its colon, a number, a string, a markdown fence)    *)
(***************************************************************************)
J_LB == "["
J_RB == "]"
J_LC == "{"
J_RC == "}"
J_CM == ","
J_FENCE == "<fence>"
J_JSONTAG == "json"
K_total == "\"total\":"
K_items == "\"items\":"
K_item_name == "\"item_name\":"
V_num == "5.0"
V_str == "\"Milk\""
V_null == "null"
\* a string literal cut before its closing quote
V_cut == "\"Mil"

K_store_category == "\"store_category\":"
K_payment_method == "\"payment_method\":"
K_category == "\"category\":"
K_unit == "\"unit\":"
K_quantity == "\"quantity\":"
K_unit_price == "\"unit_price\":"
K_line_total == "\"line_total\":"
S_Other == "\"Other\""
S_each == "\"each\""
S_empty == "\"\""

JsonKeys ==
    {K_total, K_items, K_item_name, K_store_category, K_payment_method, K_category,
     K_unit, K_quantity, K_unit_price, K_line_total}

VALID_STORE_CATEGORIES ==
    {"\"Grocery\"", "\"Restaurant\"", "\"Gas Station\"", "\"Retail\"", "\"Online\"",
     "\"Service\"", S_Other}

VALID_ITEM_CATEGORIES ==
    {"\"Dairy\"", "\"Produce\"", "\"Meat\"", "\"Bakery\"", "\"Beverages\"", "\"Snacks\"",
     "\"Frozen\"", "\"Household\"", "\"Fuel\"", "\"Entree\"", "\"Appetizer\"",
     "\"Dessert\"", "\"Drink\"", "\"Side\"", "\"Clothing\"", "\"Electronics\"", S_Other}

VALID_UNITS == {S_each, "\"lb\"", "\"oz\"", "\"gal\"", "\"kg\"", "\"L\""}

\* the payment methods the scan prompt and the schema name
PaymentMethods == {"\"Cash\"", "\"Credit\"", "\"Debit\"", S_Other}

\* string literals that are in none of the enumerations
ForeignStrings == {V_str, "\"Pharmacy\"", "\"Venmo\"", "\"box\"", "\"grocery\"", S_empty}

\* float(lexeme) of the number lexemes, counted in thousandths
NumberOf ==
    [tok \in {"0", "1", "2", "3", "4", "0.004", "2.5", V_num} |->
        CASE tok = "0" -> 0
          [] tok = "1" -> 1000
          [] tok = "2" -> 2000
          [] tok = "3" -> 3000
          [] tok = "4" -> 4000
          [] tok = "0.004" -> 4
          [] tok = "2.5" -> 2500
          [] tok = V_num -> 5000]

NumberLexemes == DOMAIN NumberOf

JsonScalars ==
    NumberLexemes \cup VALID_STORE_CATEGORIES \cup VALID_ITEM_CATEGORIES \cup VALID_UNITS
    \cup PaymentMethods \cup ForeignStrings \cup {V_null}

\* a number that was computed, not read
T_float == "<float>"

\* a value of the decoder: t is dict, list or scalar; a scalar holds its lexeme
\* in tok, and a number its value in n
JsonValue(t, tok, keys, items) ==
    [t |-> t, tok |-> tok, keys |-> keys, items |-> items,
     n |-> IF tok \in NumberLexemes THEN NumberOf[tok] ELSE 0]

JsonFrame(t) == JsonValue(t, "", <<>>, <<>>)

JsonFail == [stack |-> <<>>, mode |-> "fail", top |-> JsonFrame("none")]

\* a value is complete: it is the document, or an element of the open container
JsonComplete(st, v) ==
    IF Len(st.stack) = 0
    THEN [stack |-> <<>>, mode |-> "done", top |-> v]
    ELSE LET n == Len(st.stack)
             f == st.stack[n]
         IN  [stack |-> [st.stack EXCEPT ![n] = [f EXCEPT !.items = Append(f.items, v)]],
              mode |-> "after", top |-> st.top]

JsonPop(st) == [st EXCEPT !.stack = SubSeq(st.stack, 1, Len(st.stack) - 1)]

JsonPush(st, t, mode) == [st EXCEPT !.stack = Append(st.stack, JsonFrame(t)), !.mode = mode]

JsonKey(st, tok) ==
    LET n == Len(st.stack)
        f == st.stack[n]
    IN  [st EXCEPT !.stack = [st.stack EXCEPT ![n] = [f EXCEPT !.keys = Append(f.keys, tok)]],
                   !.mode = "value"]

\* the decoder of json.loads reading one more symbol
JsonStep(st, tok) ==
    IF st.mode = "fail" \/ tok \in Whitespace THEN st
    ELSE IF st.mode \in {"value", "first"} THEN
        IF tok = J_LB THEN JsonPush(st, "list", "first")
        ELSE IF tok = J_LC THEN JsonPush(st, "dict", "key_or_close")
        ELSE IF tok \in JsonScalars THEN JsonComplete(st, JsonValue("scalar", tok, <<>>, <<>>))
        ELSE IF tok = J_RB /\ st.mode = "first"
        THEN JsonComplete(JsonPop(st), st.stack[Len(st.stack)])
        ELSE JsonFail
    ELSE IF st.mode \in {"key_or_close", "key"} THEN
        IF tok \in JsonKeys THEN JsonKey(st, tok)
        ELSE IF tok = J_RC /\ st.mode = "key_or_close"
        THEN JsonComplete(JsonPop(st), st.stack[Len(st.stack)])
        ELSE JsonFail
    ELSE IF st.mode = "after" THEN
        LET f == st.stack[Len(st.stack)]
        IN  IF tok = J_CM THEN [st EXCEPT !.mode = IF f.t = "list" THEN "value" ELSE "key"]
            ELSE IF (tok = J_RB /\ f.t = "list") \/ (tok = J_RC /\ f.t = "dict")
            THEN JsonComplete(JsonPop(st), f)
            ELSE JsonFail
    ELSE JsonFail

RECURSIVE JsonRun(_, _)
JsonRun(st, toks) ==
    IF Len(toks) = 0 \/ st.mode = "fail" THEN st
    ELSE JsonRun(JsonStep(st, toks[1]), Tail(toks))

\* json.loads(text): ok is FALSE where it raises JSONDecodeError
JsonLoads(text) ==
    LET st == JsonRun([stack |-> <<>>, mode |-> "value", top |-> JsonFrame("none")], text)
    IN  [ok |-> st.mode = "done", value |-> st.top]

\* the positions of the fences of a text
FencesOf(text) == {i \in DOMAIN text : text[i] = J_FENCE}

\* _extract_json: the inside of the first fenced block when the text has one
\* (the pattern needs an opening and a closing fence), then json.loads
ExtractJson(raw) ==
    LET text == Strip(raw)
        fs == FencesOf(text)
    IN  IF Cardinality(fs) >= 2
        THEN LET open == CHOOSE i \in fs : \A j \in fs : i <= j
                 close == CHOOSE i \in fs \ {open} : \A j \in fs \ {open} : i <= j
                 after == IF open + 1 < close /\ text[open + 1] = J_JSONTAG
                          THEN open + 2 ELSE open + 1
             IN  JsonLoads(Strip(Slice(text, after, close - 1)))
        ELSE JsonLoads(text)

\* str.count(c)
Count(s, c) == Cardinality({i \in DOMAIN s : s[i] = c})

Max(a, b) == IF a >= b THEN a ELSE b

\* c * n
Repeat(c, n) == [i \in 1..n |-> c]

\* "Try to fix truncated JSON by closing open brackets"
RepairJson(raw) ==
    LET fixed == RStripSet(raw, Whitespace)
    IN  IF EndsWith(fixed, <<J_RB>>) THEN fixed
        ELSE LET cut == IF EndsWith(fixed, <<J_CM>>) THEN SubSeq(fixed, 1, Len(fixed) - 1)
                        ELSE fixed
                 open_braces == Count(cut, J_LC) - Count(cut, J_RC)
                 open_brackets == Count(cut, J_LB) - Count(cut, J_RB)
             IN  cut \o Repeat(J_RC, Max(0, open_braces)) \o Repeat(J_RB, Max(0, open_brackets))

\* the try/except around _extract_json: parse, and on failure parse the repaired text
ParseOrRepair(raw) ==
    LET first == ExtractJson(raw)
    IN  IF first.ok THEN first ELSE ExtractJson(RepairJson(raw))

\* the value of key k of a parsed object (the last one when repeated), a
\* missing key giving the value absent
JsonAbsent == JsonFrame("absent")

JsonGet(v, k) ==
    LET at == {i \in DOMAIN v.keys : v.keys[i] = k}
    IN  IF at = {} THEN JsonAbsent ELSE v.items[CHOOSE i \in at : \A j \in at : i >= j]

\* bool(v)
Truthy(v) ==
    CASE v.t = "scalar" ->
            IF v.tok \in NumberLexemes \cup {T_float} THEN v.n # 0
            ELSE v.tok \notin {V_null, S_empty}
      [] v.t = "list" -> Len(v.items) > 0
      [] v.t = "dict" -> Len(v.keys) > 0
      [] OTHER -> FALSE

\* isinstance(v, (int, float))
IsNumber(v) == v.t = "scalar" /\ v.tok \in NumberLexemes \cup {T_float}

\* a float the code computed
PyFloat(n) == [JsonValue("scalar", T_float, <<>>, <<>>) EXCEPT !.n = n]

\* x or d
OrDefault(x, d) == IF Truthy(x) THEN x ELSE JsonValue("scalar", d, <<>>, <<>>)

\* round(num / den, 2), in thousandths: the nearest hundredth.  A tie goes to
\* the even one where the float is the tie itself (0.625); where the float
\* nearest to a decimal tie lies beside it (0.005) Python goes by the float, and
\* the inputs of the model hold no such value
Round2(num, den) ==
    LET q == (100 * num) \div den
        r == (100 * num) % den
    IN  10 * (IF 2 * r > den \/ (2 * r = den /\ q % 2 = 1) THEN q + 1 ELSE q)

\* v in ENUM, for a set of strings
InEnum(v, enum) == v.t = "scalar" /\ v.tok \in enum

\* d[k] = val
JsonSet(d, k, val) ==
    IF \E i \in DOMAIN d.keys : d.keys[i] = k
    THEN [d EXCEPT !.items = [i \in DOMAIN d.items |->
                                 IF d.keys[i] = k THEN val ELSE d.items[i]]]
    ELSE [d EXCEPT !.keys = Append(d.keys, k), !.items = Append(d.items, val)]

\* the value kept whatever it is
EnumKept(d, k, enum, fallback) == d

\* "if d.get(k) not in ENUM: d[k] = fallback"
EnumOrDefault(d, k, enum, fallback) ==
    IF InEnum(JsonGet(d, k), enum) THEN d
    ELSE JsonSet(d, k, JsonValue("scalar", fallback, <<>>, <<>>))

\* the locals of the loop body of _validate_and_clean
ItemLocals(item) ==
    [line_total |-> OrDefault(JsonGet(item, K_line_total), "0"),
     quantity |-> OrDefault(JsonGet(item, K_quantity), "1"),
     unit_price |-> JsonGet(item, K_unit_price)]

\* the unit price derived where one is given
DerivesUnitPriceGiven(l) == Truthy(l.unit_price) /\ Truthy(l.quantity) /\ Truthy(l.line_total)

\* "if not unit_price and quantity and line_total"
DerivesUnitPrice(l) == ~Truthy(l.unit_price) /\ Truthy(l.quantity) /\ Truthy(l.line_total)

\* the line total derived whether or not one is given
DerivesLineTotalAlways(l) == Truthy(l.unit_price) /\ Truthy(l.quantity)

\* "if not line_total and unit_price and quantity"
DerivesLineTotal(l) == ~Truthy(l.line_total) /\ Truthy(l.unit_price) /\ Truthy(l.quantity)

\* the loop body of _validate_and_clean, for an item it does not raise on
CleanItem(item) ==
    LET a == EnumOrDefault(item, K_category, VALID_ITEM_CATEGORIES, S_Other)
        b == EnumOrDefault(a, K_unit, VALID_UNITS, S_each)
        l == ItemLocals(b)
        c == IF DerivesUnitPrice(l)
             THEN JsonSet(b, K_unit_price, PyFloat(Round2(l.line_total.n, l.quantity.n)))
             ELSE b
    IN  IF DerivesLineTotal(l)
        THEN JsonSet(c, K_line_total,
                     PyFloat(Round2(l.unit_price.n * l.quantity.n, 1000000)))
        ELSE c

\* _validate_and_clean(data), for a receipt it does not raise on
ValidateAndClean(data) ==
    LET a == EnumOrDefault(data, K_store_category, VALID_STORE_CATEGORIES, S_Other)
        items == JsonGet(a, K_items)
    IN  IF items.t = "list"
        THEN JsonSet(a, K_items,
                     [items EXCEPT !.items = [i \in DOMAIN items.items |->
                                                 CleanItem(items.items[i])]])
        ELSE a

\* "x not in ENUM" raises TypeError for a value that cannot be hashed
Unhashable(v) == v.t \in {"list", "dict"}

\* whether the loop body raises: item.get on something that is no object, an
\* unhashable category or unit, arithmetic on something that is no number
ItemRaises(item) ==
    \/ item.t # "dict"
    \/ Unhashable(JsonGet(item, K_category))
    \/ Unhashable(JsonGet(item, K_unit))
    \/ LET l == ItemLocals(item)
       IN  \/ DerivesUnitPrice(l) /\ ~(IsNumber(l.line_total) /\ IsNumber(l.quantity))
           \/ DerivesLineTotal(l) /\ ~(IsNumber(l.unit_price) /\ IsNumber(l.quantity))

\* whether _validate_and_clean(receipt) raises: data.get on something that is
\* no object, an unhashable store_category, the loop over items that cannot be
\* iterated (a number, null), and the loop body raising for an element (an
\* element of a list, a key of an object, a character of a string)
ValidateAndCleanRaises(receipt) ==
    \/ receipt.t # "dict"
    \/ Unhashable(JsonGet(receipt, K_store_category))
    \/ LET items == JsonGet(receipt, K_items)
       IN  \/ items.t = "scalar" /\ items.tok # S_empty
           \/ items.t = "dict" /\ Len(items.keys) > 0
           \/ items.t = "list" /\ \E i \in DOMAIN items.items : ItemRaises(items.items[i])

(***************************************************************************)
(* run_query: shaping of the result rows                                   *)
(***************************************************************************)
\* money_keywords
MoneyKeywords ==
    {<<"t","o","t","a","l">>, <<"s","p","e","n","t">>, <<"p","r","i","c","e">>,
     <<"c","o","s","t">>, <<"a","m","o","u","n","t">>, <<"s","u","m">>,
     <<"s","u","b","t","o","t","a","l">>, <<"t","a","x">>, <<"t","i","p">>}

\* any(kw in k.lower() for kw in money_keywords)
IsMoneyColumn(k) == \E kw \in MoneyKeywords : Contains(Lower(k), kw)

\* a value of a result row: t is none, int, float, decimal, str, date or bytes;
\* a number holds its value in n, counted in thousandths, the others their text
Cell(t, n, text) == [t |-> t, n |-> n, text |-> text]

\* "$0.00"
ZeroCurrency == Cell("str", 0, <<"$","0",".","0","0">>)

\* the digits of n in groups of three: the ',' of the format specification
RECURSIVE Grouped(_)
Grouped(n) ==
    IF n < 1000 THEN DecimalOf(n)
    ELSE Grouped(n \div 1000)
         \o <<",", Digits[((n % 1000) \div 100) + 1], Digits[((n % 100) \div 10) + 1],
               Digits[(n % 10) + 1]>>

\* f"${v:,.2f}"
FormatMoney(n) ==
    LET cents == Round2(IF n < 0 THEN -n ELSE n, 1000) \div 10
    IN  <<"$">> \o (IF n < 0 THEN <<"-">> ELSE <<>>) \o Grouped(cents \div 100)
        \o <<".", Digits[((cents % 100) \div 10) + 1], Digits[(cents % 10) + 1]>>

\* "Convert non-serializable types and format currency", for the value v of
\* column k
ShapeCell(k, v) ==
    IF v.t = "date" THEN Cell("str", 0, v.text)
    ELSE IF v.t = "bytes" THEN Cell("str", 0, <<"b","'">> \o v.text \o <<"'">>)
    ELSE IF v.t = "none" /\ IsMoneyColumn(k) THEN ZeroCurrency
    ELSE IF v.t \in {"int", "float"} /\ IsMoneyColumn(k)
    THEN Cell("str", 0, FormatMoney(v.n))
    ELSE v

ShapeRow(columns, row) == [i \in DOMAIN columns |-> ShapeCell(columns[i], row[i])]

\* the row of an empty aggregate with 0 in every column
SynthesisedZeros(columns) == [i \in DOMAIN columns |-> Cell("int", 0, <<>>)]

\* {col: "$0.00" if any(kw in col.lower() ...) else 0 for col in columns}
SynthesisedRow(columns) ==
    [i \in DOMAIN columns |->
        IF IsMoneyColumn(columns[i]) THEN ZeroCurrency ELSE Cell("int", 0, <<>>)]

(***************************************************************************)
(* Inputs of the model                                                     *)
(***************************************************************************)
\* the longest model answer, in fragments
MaxAtoms == 3

NumUsers == 2

\* rows a user owns beyond the row cap, when the user owns any
ExtraRows == 1

Users == 1..NumUsers

A_sp == <<" ">>
A_semi == <<";">>
A_SELECT == <<"S","E","L","E","C","T">>
A_select == <<"s","e","l","e","c","t">>
A_update == <<" ","u","p","d","a","t","e">>
A_d_at == <<"d","_","a","t">>
A_limit == <<" ","l","i","m","i","t">>
A_1000 == <<" ","1","0","0","0">>
A_uid == <<" ",":","u","s","e","r","_","i","d">>
A_receipts == <<" ","r","e","c","e","i","p","t","s">>
A_sum == <<" ","s","u","m","(">>

\* the fragments a generated statement is put together from
Atoms ==
    {A_sp, A_semi, A_SELECT, A_select, A_update, A_d_at, A_limit, A_1000, A_uid,
     A_receipts, A_sum}

\* the texts of at most MaxAtoms fragments
Statements == {Concat(a) : a \in UNION {[1..n -> Atoms] : n \in 0..MaxAtoms}}

FenceOpen == <<Backquote, Backquote, Backquote, "s","q","l","\n">>
FenceClose == <<"\n", Backquote, Backquote, Backquote>>

\* message.content of the model's answer: the statement bare, or in a markdown fence
Contents == Statements \cup {FenceOpen \o st \o FenceClose : st \in Statements}

Q_spend == <<"h","o","w"," ","m","u","c","h"," ","d","i","d"," ","I"," ","s","p","e","n","d">>
Q_inject == <<";"," ","u","p","d","a","t","e"," ","r","e","c","e","i","p","t","s">>

\* the questions a caller asks
Questions == {Q_spend, Q_inject}

E_nocol == <<"n","o"," ","s","u","c","h"," ","c","o","l","u","m","n",":"," ","x">>
E_notable == <<"n","o"," ","s","u","c","h"," ","t","a","b","l","e",":"," ","x">>
E_syntax == <<"n","e","a","r"," ","\"","x","\"",":"," ","s","y","n","t","a","x"," ","e","r","r","o","r">>
E_oper ==
    <<"o","p","e","r","a","t","o","r"," ","d","o","e","s"," ","n","o","t"," ",
      "e","x","i","s","t",":"," ","t","e","x","t"," ",">"," ","i","n","t","e","g","e","r">>
E_match ==
    <<"t","i","m","e"," ","d","a","t","a"," ","d","i","d"," ","n","o","t"," ",
      "m","a","t","c","h"," ","f","o","r","m","a","t">>
E_locked == <<"d","a","t","a","b","a","s","e"," ","i","s"," ","l","o","c","k","e","d">>

\* str(e) of what execute / fetchall raise
ExecuteErrors == {E_nocol, E_notable, E_syntax, E_oper, E_match}

\* str(e) of what commit raises
CommitErrors == {E_locked}

\* how many rows of the queried table a user owns
RowCounts == {0, MAX_ROWS + ExtraRows}

C_total_spent == <<"t","o","t","a","l","_","s","p","e","n","t">>
C_store_name == <<"s","t","o","r","e","_","n","a","m","e">>
C_visits == <<"v","i","s","i","t","s">>
C_Tip == <<"T","i","p">>
C_avg_price == <<"a","v","g","_","p","r","i","c","e">>
C_receipt_date == <<"r","e","c","e","i","p","t","_","d","a","t","e">>

\* what the statement selects and what the driver gives for it in each row: the
\* column names, and the values of a row (a float, NULL, a string, an int, a
\* date, and the Decimal of a NUMERIC expression such as ROUND(x::numeric, 2))
ResultShapes ==
    {[columns |-> <<C_total_spent>>, row |-> <<Cell("float", 1234567, <<>>)>>],
     [columns |-> <<C_store_name, C_total_spent>>,
      row |-> <<Cell("str", 0, <<"A","l","d","i">>), Cell("none", 0, <<>>)>>],
     [columns |-> <<C_visits, C_Tip>>,
      row |-> <<Cell("int", 3000, <<>>), Cell("int", 3000, <<>>)>>],
     [columns |-> <<C_receipt_date, C_avg_price>>,
      row |-> <<Cell("date", 0, <<"2","0","2","4","-","0","1","-","3","1">>),
                Cell("decimal", 2500, <<>>)>>]}

\* the longest generic model text of the scanner, in symbols
MaxTokens == 3

JsonAtoms == {J_LB, J_RB, J_LC, J_RC, J_CM, K_items, V_num}

\* the spec's truncated answer: [{"total": 5.0, "items": [{"item_name": "Milk"
TruncatedNested ==
    <<J_LB, J_LC, K_total, V_num, J_CM, K_items, J_LB, J_LC, K_item_name, V_str>>

\* the largest quantity of a line item
MaxQuantity == 3

\* a member of an object's text; a member with no value is left out
Member(k, value) == IF value = <<>> THEN <<>> ELSE <<<<k>> \o value>>

\* the text of an object, from its members
ObjectText(members) == <<J_LC>> \o JoinWith(Concat(members), J_CM) \o <<J_RC>>

\* the text of an array, from the texts of its elements
ArrayText(elements) == <<J_LB>> \o JoinWith(elements, J_CM) \o <<J_RB>>

ItemText(category, unit, quantity, unit_price, line_total) ==
    ObjectText(<<Member(K_item_name, <<V_str>>), Member(K_category, category),
                 Member(K_unit, unit), Member(K_quantity, quantity),
                 Member(K_unit_price, unit_price), Member(K_line_total, line_total)>>)

ReceiptText(store_category, payment_method, items) ==
    ObjectText(<<Member(K_store_category, store_category),
                 Member(K_payment_method, payment_method),
                 Member(K_total, <<V_num>>), Member(K_items, items)>>)

\* a field the model wrote a string in (or null), or left out: <<>>
StringFields(valid) == {<<>>, <<V_null>>, <<valid>>, <<"\"Pharmacy\"">>, <<"\"grocery\"">>}

QuantityFields ==
    {<<>>, <<V_null>>} \cup {<<tok>> : tok \in {t \in {"0", "1", "2", "3", "4"} :
                                                NumberOf[t] <= 1000 * MaxQuantity}}

AmountFields == {<<>>, <<V_null>>, <<"0">>, <<"0.004">>, <<"2.5">>, <<V_num>>}

\* the line items the model writes: every combination of the three numbers,
\* every combination of category and unit, and items the arithmetic fails on
ItemTexts ==
    {ItemText(<<"\"Dairy\"">>, <<"\"lb\"">>, q, up, lt) :
        q \in QuantityFields, up \in AmountFields, lt \in AmountFields}
    \cup {ItemText(c, u, <<"2">>, <<>>, <<V_num>>) :
            c \in StringFields("\"Dairy\""), u \in StringFields("\"kg\"")}
    \cup {ItemText(<<>>, <<>>, <<"1">>, <<>>, <<V_str>>),
          ItemText(<<J_LB, J_RB>>, <<>>, <<"1">>, <<"2.5">>, <<"2.5">>)}

PlainItem == ItemText(<<"\"Dairy\"">>, <<"\"lb\"">>, <<"2">>, <<"2.5">>, <<V_num>>)

\* the receipts the model writes
ReceiptTexts ==
    {ReceiptText(<<"\"Grocery\"">>, <<"\"Cash\"">>, ArrayText(<<it>>)) : it \in ItemTexts}
    \cup {ReceiptText(sc, pm, ArrayText(<<PlainItem>>)) :
            sc \in StringFields("\"Gas Station\""), pm \in StringFields("\"Debit\"") \cup {<<"\"Venmo\"">>}}
    \cup {ReceiptText(<<>>, <<>>, its) :
            its \in {<<>>, <<V_null>>, <<S_empty>>, <<J_LB, J_RB>>, <<J_LC, J_RC>>,
                     ArrayText(<<PlainItem, ItemText(<<>>, <<>>, <<>>, <<"2.5">>, <<>>)>>)}}

\* the documents the model writes: one receipt as an object, receipts in an array
DocumentTexts ==
    ReceiptTexts
    \cup {ArrayText(<<ReceiptText(<<"\"Retail\"">>, <<>>, <<>>),
                      ReceiptText(<<"\"Online\"">>, <<V_null>>, ArrayText(<<PlainItem>>))>>),
          ArrayText(<<ReceiptText(<<"\"Venmo\"">>, <<"\"Venmo\"">>, ArrayText(<<PlainItem>>))>>),
          ArrayText(<<ReceiptText(<<>>, <<>>, <<>>), <<V_num>>>>)}

\* texts the vision model answers with: every short text, and longer ones
RawTexts ==
    UNION {[1..n -> JsonAtoms] : n \in 1..MaxTokens}
    \cup DocumentTexts
    \cup {TruncatedNested,
          <<J_LB, J_LC, K_total, V_num, J_RC, J_RB>>,
          <<J_LB, J_LC, K_total, V_num, J_CM>>,
          <<J_LB, J_LC, K_total, V_cut>>,
          <<J_FENCE, J_JSONTAG, "\n", J_LB, J_LC, K_total, V_num, J_RC, J_RB, "\n", J_FENCE>>,
          <<J_FENCE, J_JSONTAG, "\n", J_LB, J_LC, K_total, V_num>>}

\* message.content given as a list of parts (openai SDK v2)
PartLists == {<<>>, <<<<J_LB>>, <<J_RB>>>>}

\* what the model sends when asked to continue
ContinuationTexts ==
    {<<J_RB>>, <<J_RC>>, <<J_RC, J_RB>>, <<V_num, J_RC, J_RB>>, <<J_RC, J_RB, J_RC, J_RB>>}

\* the extension of the uploaded file
Extensions == {".jpg", ".png", ".heic", ".pdf"}

(***************************************************************************)
(* State                                                                   *)
(***************************************************************************)
VARIABLES
    pc,             \* where the run_query call stands
    user_id,        \* run_query's argument
    question,       \* run_query's argument
    db_url,         \* app.config["SQLALCHEMY_DATABASE_URI"]
    prompt_template, \* run_query's local: the name of the prompt it fills
    prompt,         \* the question the prompt sent to the model was filled with
    content,        \* response.choices[0].message.content
    validated_sql,  \* the text handed to _validate_sql
    generated_sql,  \* run_query's local
    verdict,        \* what _validate_sql returned
    executed,       \* the calls of db.session.execute: text and bound parameters
    result,         \* the shaped rows of the answer
    error_msg,      \* str(e) in the except branch
    session_new,    \* db.session: objects added and not yet committed
    query_log,      \* the committed rows of the query_log table
    outcome,        \* what the call gave its caller
    scan_pc,        \* where the scan_receipt call stands
    image_ext,      \* the extension of scan_receipt's argument
    image_path,     \* the file handed to _encode_image
    temp_files,     \* scan_receipt's local list of rasterised pages
    disk,           \* the rasterised page files that exist
    encoded,        \* what _encode_image returned
    requests,       \* the message lists sent to the vision model
    raw,            \* the model's text
    finish_reason,  \* response.choices[0].finish_reason of the first answer
    extract_calls,  \* the texts handed to _extract_json
    scan_outcome,   \* what scan_receipt gave its caller
    route_pc,       \* where the call of the /api/scan route stands
    uploads,        \* the uploaded files that exist in the upload folder
    photo_data,     \* the route's local: what it read to store with the receipts
    response,       \* what the route answered
    resize_pc,      \* where the _resize_image_if_needed call stands
    img,            \* the opened image: its mode, width and height
    quality,        \* the JPEG quality of the last save
    buffer,         \* buffer.tell(): the size of the last encoding, in bytes
    resize_result,  \* what _resize_image_if_needed gave its caller
    login_attempts, \* login_attempts[ip] of the one client address: timestamps
    now,            \* datetime.now(), in seconds
    users,          \* the emails of the users table
    handlers,       \* the /login and /signup requests being handled
    handled,        \* how many requests have been received
    checks,         \* the password checks /login has made: when, and how they ended
    receipt_rows,   \* the committed rows of table receipts of the user, by id
    line_items,     \* the committed line items of each receipt: their normalized names
    normalized_items, \* the committed rows of table normalized_items of the user
    api             \* the /api/receipts requests of the user and their sessions

qvars ==
    <<pc, user_id, question, db_url, prompt_template, prompt, content, validated_sql,
      generated_sql, verdict,
      executed, result, error_msg, session_new, query_log, outcome>>

svars ==
    <<scan_pc, image_ext, image_path, temp_files, disk, encoded, requests, raw,
      finish_reason, extract_calls, scan_outcome>>

tvars == <<route_pc, uploads, photo_data, response>>

zvars == <<resize_pc, img, quality, buffer, resize_result>>

lvars == <<login_attempts, now, users, handlers, handled, checks>>

rvars == <<receipt_rows, line_items, normalized_items, api>>

\* the state of what surrounds the two entry points
wvars == <<tvars, zvars, lvars, rvars>>

vars == <<qvars, svars, wvars>>

NoFriendly == [msg |-> NoError, detail |-> <<>>]

Running ==
    [kind |-> "running", exc |-> "None", error |-> NoFriendly, sql |-> <<>>,
     rows |-> 0, foreign |-> FALSE, columns |-> <<>>, row |-> <<>>,
     summary |-> [tag |-> "none", reason |-> NoError, rows |-> 0, detail |-> <<>>]]

\* raise exc
Raised(exc) == [Running EXCEPT !.kind = "raise", !.exc = exc]

\* return {"error": error, "sql": sql}
ErrorDict(error, sql) == [Running EXCEPT !.kind = "error", !.error = error, !.sql = sql]

\* return {"sql": sql, "columns": ..., "rows": rows, "summary": ...}
ResultDict(sql, rows, foreign) ==
    [Running EXCEPT !.kind = "result", !.sql = sql, !.rows = rows, !.foreign = foreign]

\* QueryLog(user_id, question, generated_sql, result_summary)
QueryLog(u, q, sql, summary) ==
    [user_id |-> u, question |-> q, generated_sql |-> sql, result_summary |-> summary]

\* f"REJECTED: {error}"
RejectedSummary(error) == [tag |-> "REJECTED", reason |-> error, rows |-> 0, detail |-> <<>>]

\* f"{len(rows)} row(s) returned"
RowsSummary(n) == [tag |-> "ROWS", reason |-> NoError, rows |-> n, detail |-> <<>>]

\* f"ERROR: {error_msg[:200]}"
ErrorSummary(msg) ==
    [tag |-> "ERROR", reason |-> NoError, rows |-> 0, detail |-> Take(msg, AuditPrefixLen)]

NoVerdict == [valid |-> FALSE, error |-> NoError]

NoResult == [rows |-> 0, foreign |-> FALSE, columns |-> <<>>, fetched |-> <<>>, row |-> <<>>]

\* a call of run_query with the application configured for uri
QStart(uri) ==
    /\ pc = "start"
    /\ user_id \in Users
    /\ question \in Questions
    /\ db_url = uri
    /\ prompt_template = "None"
    /\ prompt = <<>>
    /\ content = <<>>
    /\ validated_sql = <<>>
    /\ generated_sql = <<>>
    /\ verdict = NoVerdict
    /\ executed = <<>>
    /\ result = NoResult
    /\ error_msg = <<>>
    /\ session_new = <<>>
    /\ query_log = <<>>
    /\ outcome = Running

\* a call of run_query where DATABASE_URL is not set
QInit == QStart(DatabaseUri(U_default))

(***************************************************************************)
(* run_query, one action per stretch of code between two collaborator      *)
(* calls                                                                   *)
(***************************************************************************)
\* client.chat.completions.create raises
ModelRaises ==
    /\ pc = "start"
    /\ prompt_template' = PromptTemplate(db_url)
    /\ prompt' = question
    /\ outcome' = Raised("APIError")
    /\ pc' = "done"
    /\ UNCHANGED <<svars, wvars>>
    /\ UNCHANGED <<db_url, user_id, question, content, validated_sql, generated_sql, verdict,
                   executed, result, error_msg, session_new, query_log>>

\* the model answers with no content: None.strip() raises
ModelReturnsNone ==
    /\ pc = "start"
    /\ prompt_template' = PromptTemplate(db_url)
    /\ prompt' = question
    /\ outcome' = Raised("AttributeError")
    /\ pc' = "done"
    /\ UNCHANGED <<svars, wvars>>
    /\ UNCHANGED <<db_url, user_id, question, content, validated_sql, generated_sql, verdict,
                   executed, result, error_msg, session_new, query_log>>

\* "if not valid": where run_query goes with the validator's answer
AfterValidation(v) == IF ~v.valid THEN "reject" ELSE "execute"

\* the model answers: fences stripped, statement validated, row cap ensured
ModelReturns ==
    /\ pc = "start"
    /\ \E c \in Contents :
        LET sql == StripFences(c)
            v == ValidateSql(sql)
        IN  /\ content' = c
            /\ validated_sql' = sql
            /\ verdict' = v
            /\ pc' = AfterValidation(v)
            /\ generated_sql' = IF AfterValidation(v) = "execute" THEN EnsureLimit(sql) ELSE sql
    /\ prompt_template' = PromptTemplate(db_url)
    /\ prompt' = question
    /\ UNCHANGED <<svars, wvars>>
    /\ UNCHANGED <<db_url, user_id, question, executed, result, error_msg, session_new,
                   query_log, outcome>>

\* the audit row of a rejected statement
RejectedLog == QueryLog(user_id, question, generated_sql, RejectedSummary(verdict.error))

\* db.session.add(log); db.session.commit(); return {"error", "sql"}
RejectAuditCommitted ==
    /\ pc = "reject"
    /\ query_log' = query_log \o Append(session_new, RejectedLog)
    /\ session_new' = <<>>
    /\ outcome' = ErrorDict([msg |-> verdict.error, detail |-> <<>>], generated_sql)
    /\ pc' = "done"
    /\ UNCHANGED <<svars, wvars>>
    /\ UNCHANGED <<db_url, prompt_template, user_id, question, prompt, content,
                   validated_sql, generated_sql,
                   verdict, executed, result, error_msg>>

\* db.session.add(log); db.session.commit() raises, outside any try
RejectAuditRaises ==
    /\ pc = "reject"
    /\ session_new' = Append(session_new, RejectedLog)
    /\ outcome' = Raised("CommitError")
    /\ pc' = "done"
    /\ UNCHANGED <<svars, wvars>>
    /\ UNCHANGED <<db_url, prompt_template, user_id, question, prompt, content,
                   validated_sql, generated_sql,
                   verdict, executed, result, error_msg, query_log>>

\* old[i] replaced by new everywhere in s
RECURSIVE ReplaceAll(_, _, _)
ReplaceAll(s, old, new) ==
    IF Len(s) = 0 THEN <<>>
    ELSE IF StartsWith(s, old)
    THEN new \o ReplaceAll(Slice(s, Len(old) + 1, Len(s)), old, new)
    ELSE <<s[1]>> \o ReplaceAll(Tail(s), old, new)

\* the user id written into the text instead of being bound
ExecuteCallInterpolated(sql, uid) ==
    [sql |-> ReplaceAll(sql, T_UserIdParam, DecimalOf(uid)), params |-> {}]

\* db.session.execute(text(generated_sql), {"user_id": user_id})
ExecuteCall(sql, uid) == [sql |-> sql, params |-> {<<"user_id", uid>>}]

\* "If no rows returned and query looks like a sum/total": the rows after shaping
ShapedRowCount(sql, n) ==
    IF n = 0 /\ (Contains(Upper(sql), T_SUM) \/ Contains(Upper(sql), T_TOTAL))
    THEN 1
    ELSE n

\* the values of each row after shaping: of the fetched rows, or of the row
\* synthesised for an empty aggregate; <<>> where no row is returned
ShapedRows(sql, n, shape) ==
    IF n > 0 THEN ShapeRow(shape.columns, shape.row)
    ELSE IF ShapedRowCount(sql, n) = 1 THEN SynthesisedRow(shape.columns)
    ELSE <<>>

\* execute and fetchall answer; rows shaped; the audit row added to the session
ExecuteReturns ==
    /\ pc = "execute"
    /\ MayAnswer(generated_sql)
    /\ executed' = Append(executed, ExecuteCall(generated_sql, user_id))
    /\ \E own \in RowCounts, others \in RowCounts, shape \in ResultShapes :
        LET n == RowsReturned(generated_sql, own, others)
        IN  \E foreign \in BOOLEAN :
                /\ foreign => MayReturnForeign(generated_sql, n, others)
                /\ MustReturnForeign(n, own) => foreign
                /\ result' = [rows |-> ShapedRowCount(generated_sql, n),
                              foreign |-> foreign,
                              columns |-> shape.columns,
                              fetched |-> IF n = 0 THEN <<>> ELSE shape.row,
                              row |-> ShapedRows(generated_sql, n, shape)]
    /\ session_new' = Append(session_new,
                             QueryLog(user_id, question, generated_sql,
                                      RowsSummary(result'.rows)))
    /\ pc' = "audit"
    /\ UNCHANGED <<svars, wvars>>
    /\ UNCHANGED <<db_url, prompt_template, user_id, question, prompt, content,
                   validated_sql, generated_sql,
                   verdict, error_msg, query_log, outcome>>

\* the rollback of the except branch left out: the session keeps what was added
RollbackSkipped(session) == session

\* db.session.rollback(): what the session holds afterwards
Rollback(session) == <<>>

\* execute or fetchall raises: the except branch rolls back
ExecuteRaises ==
    /\ pc = "execute"
    /\ executed' = Append(executed, ExecuteCall(generated_sql, user_id))
    /\ \E e \in ExecuteErrors : error_msg' = e
    /\ session_new' = Rollback(session_new)
    /\ pc' = "error_audit"
    /\ UNCHANGED <<svars, wvars>>
    /\ UNCHANGED <<db_url, prompt_template, user_id, question, prompt, content,
                   validated_sql, generated_sql,
                   verdict, result, query_log, outcome>>

\* db.session.commit() of the success path; return the result
SuccessAuditCommitted ==
    /\ pc = "audit"
    /\ query_log' = query_log \o session_new
    /\ session_new' = <<>>
    /\ outcome' = [ResultDict(generated_sql, result.rows, result.foreign)
                       EXCEPT !.columns = result.columns, !.row = result.row,
                              !.summary = RowsSummary(result.rows)]
    /\ pc' = "done"
    /\ UNCHANGED <<svars, wvars>>
    /\ UNCHANGED <<db_url, prompt_template, user_id, question, prompt, content,
                   validated_sql, generated_sql,
                   verdict, executed, result, error_msg>>

\* db.session.commit() of the success path raises: the except branch rolls back
SuccessAuditRaises ==
    /\ pc = "audit"
    /\ \E e \in CommitErrors : error_msg' = e
    /\ session_new' = Rollback(session_new)
    /\ pc' = "error_audit"
    /\ UNCHANGED <<svars, wvars>>
    /\ UNCHANGED <<db_url, prompt_template, user_id, question, prompt, content,
                   validated_sql, generated_sql,
                   verdict, executed, result, query_log, outcome>>

\* the audit row of a failed execution
ErrorLog == QueryLog(user_id, question, generated_sql, ErrorSummary(error_msg))

\* the except branch: the ERROR row is committed; return {"error", "sql"}
ErrorAuditCommitted ==
    /\ pc = "error_audit"
    /\ query_log' = query_log \o Append(session_new, ErrorLog)
    /\ session_new' = <<>>
    /\ outcome' = ErrorDict(FriendlyError(error_msg), generated_sql)
    /\ pc' = "done"
    /\ UNCHANGED <<svars, wvars>>
    /\ UNCHANGED <<db_url, prompt_template, user_id, question, prompt, content,
                   validated_sql, generated_sql,
                   verdict, executed, result, error_msg>>

\* the except branch: committing the ERROR row raises, which is swallowed
ErrorAuditRaises ==
    /\ pc = "error_audit"
    /\ session_new' = <<>>
    /\ outcome' = ErrorDict(FriendlyError(error_msg), generated_sql)
    /\ pc' = "done"
    /\ UNCHANGED <<svars, wvars>>
    /\ UNCHANGED <<db_url, prompt_template, user_id, question, prompt, content,
                   validated_sql, generated_sql,
                   verdict, executed, result, error_msg, query_log>>

QNext ==
    \/ ModelRaises
    \/ ModelReturnsNone
    \/ ModelReturns
    \/ RejectAuditCommitted
    \/ RejectAuditRaises
    \/ ExecuteReturns
    \/ ExecuteRaises
    \/ SuccessAuditCommitted
    \/ SuccessAuditRaises
    \/ ErrorAuditCommitted
    \/ ErrorAuditRaises

\* no run_query call in this behaviour
QIdle ==
    /\ pc = "idle"
    /\ user_id = 1
    /\ question = <<>>
    /\ db_url = DatabaseUri(U_default)
    /\ prompt_template = "None"
    /\ prompt = <<>>
    /\ content = <<>>
    /\ validated_sql = <<>>
    /\ generated_sql = <<>>
    /\ verdict = NoVerdict
    /\ executed = <<>>
    /\ result = NoResult
    /\ error_msg = <<>>
    /\ session_new = <<>>
    /\ query_log = <<>>
    /\ outcome = Running

(***************************************************************************)
(* scan_receipt, one action per stretch of code between two collaborator   *)
(* calls                                                                   *)
(***************************************************************************)
CouldNotConvert == "Could not convert PDF"

FailedToProcess == "Failed to process image"

EmptyResponse == "Empty response from AI"

FailedToParse == "Failed to parse AI response"

UnexpectedFormat == "Unexpected AI response format"

ScanRunning ==
    [kind |-> "running", exc |-> "None", error |-> NoError, has_raw |-> FALSE,
     raw |-> <<>>, receipts |-> 0, list |-> <<>>]

\* raise exc
ScanRaised(exc) == [ScanRunning EXCEPT !.kind = "raise", !.exc = exc]

\* return {"error": error}
ScanError(error) == [ScanRunning EXCEPT !.kind = "error", !.error = error]

\* return {"error": error, "raw": text}
ScanErrorRaw(error, text) ==
    [ScanRunning EXCEPT !.kind = "error", !.error = error, !.has_raw = TRUE, !.raw = text]

\* return the list of receipts
ScanList(receipts) ==
    [ScanRunning EXCEPT !.kind = "list", !.receipts = Len(receipts), !.list = receipts]

\* pdf_path.rsplit(".", 1)[0] + "_page0.jpg"
Page0 == "upload_page0.jpg"

Upload == "upload"

NotEncoded == [source |-> "none", mime |-> "none"]

\* an unknown extension tagged as a byte stream
GetMimeTypeOctet(ext) ==
    IF ext \in {".jpg", ".jpeg"} THEN "image/jpeg"
    ELSE IF ext = ".png" THEN "image/png"
    ELSE IF ext = ".gif" THEN "image/gif"
    ELSE IF ext = ".webp" THEN "image/webp"
    ELSE "application/octet-stream"

\* _get_mime_type
GetMimeType(ext) ==
    IF ext \in {".jpg", ".jpeg"} THEN "image/jpeg"
    ELSE IF ext = ".png" THEN "image/png"
    ELSE IF ext = ".gif" THEN "image/gif"
    ELSE IF ext = ".webp" THEN "image/webp"
    ELSE "image/jpeg"

\* the extension of the file handed to _encode_image
EncodedExt == IF image_path = Page0 THEN ".jpg" ELSE image_ext

SInit ==
    /\ scan_pc = "start"
    /\ image_ext \in Extensions
    /\ image_path = Upload
    /\ temp_files = <<>>
    /\ disk = {}
    /\ encoded = NotEncoded
    /\ requests = <<>>
    /\ raw = <<>>
    /\ finish_reason = "none"
    /\ extract_calls = <<>>
    /\ scan_outcome = ScanRunning

\* no scan_receipt call in this behaviour
SIdle ==
    /\ scan_pc = "idle"
    /\ image_ext = ".jpg"
    /\ image_path = Upload
    /\ temp_files = <<>>
    /\ disk = {}
    /\ encoded = NotEncoded
    /\ requests = <<>>
    /\ raw = <<>>
    /\ finish_reason = "none"
    /\ extract_calls = <<>>
    /\ scan_outcome = ScanRunning

\* image_path.lower().endswith(".pdf")
IsPdf == image_ext = ".pdf"

\* convert_pdf_to_images raises, before or after it wrote the page file; it is
\* called outside any try
ConvertPdfRaises ==
    /\ scan_pc = "start"
    /\ IsPdf
    /\ \E written \in BOOLEAN : disk' = IF written THEN disk \cup {Page0} ELSE disk
    /\ scan_outcome' = ScanRaised("PdfError")
    /\ scan_pc' = "done"
    /\ UNCHANGED <<qvars, wvars>>
    /\ UNCHANGED <<finish_reason, extract_calls, image_ext, image_path, temp_files, encoded,
                   requests, raw>>

\* the document has no page: "if not pages"
ConvertPdfEmpty ==
    /\ scan_pc = "start"
    /\ IsPdf
    /\ scan_outcome' = ScanError(CouldNotConvert)
    /\ scan_pc' = "done"
    /\ UNCHANGED <<qvars, wvars>>
    /\ UNCHANGED <<finish_reason, extract_calls, image_ext, image_path, temp_files, disk,
                   encoded, requests, raw>>

\* the first page is rasterised: temp_files.extend(pages); image_path = pages[0]
ConvertPdfReturns ==
    /\ scan_pc = "start"
    /\ IsPdf
    /\ disk' = disk \cup {Page0}
    /\ temp_files' = temp_files \o <<Page0>>
    /\ image_path' = Page0
    /\ scan_pc' = "encode"
    /\ UNCHANGED <<qvars, wvars>>
    /\ UNCHANGED <<finish_reason, extract_calls, image_ext, encoded, requests, raw, scan_outcome>>

ReadyToEncode == (scan_pc = "start" /\ ~IsPdf) \/ scan_pc = "encode"

\* for f in temp_files: os.remove(f)
RemoveTempFiles == disk \ Range(temp_files)

\* the first message list: the prompt and the image as a data URL
FirstRequest(enc) == <<[role |-> "user", text |-> <<"<SCAN_PROMPT>">>, image |-> enc]>>

\* _encode_image re-encodes the image as JPEG
EncodeResized ==
    /\ ReadyToEncode
    /\ encoded' = [source |-> "resized", mime |-> "image/jpeg"]
    /\ scan_pc' = "call"
    /\ UNCHANGED <<qvars, wvars>>
    /\ UNCHANGED <<finish_reason, extract_calls, image_ext, image_path, temp_files, disk,
                   requests, raw, scan_outcome>>

\* _resize_image_if_needed raises: the raw file, with the MIME type of its extension
EncodeFallback ==
    /\ ReadyToEncode
    /\ encoded' = [source |-> "raw", mime |-> GetMimeType(EncodedExt)]
    /\ scan_pc' = "call"
    /\ UNCHANGED <<qvars, wvars>>
    /\ UNCHANGED <<finish_reason, extract_calls, image_ext, image_path, temp_files, disk,
                   requests, raw, scan_outcome>>

\* reading the raw file raises too: temp files removed, error returned
EncodeFails ==
    /\ ReadyToEncode
    /\ disk' = RemoveTempFiles
    /\ scan_outcome' = ScanError(FailedToProcess)
    /\ scan_pc' = "done"
    /\ UNCHANGED <<qvars, wvars>>
    /\ UNCHANGED <<finish_reason, extract_calls, image_ext, image_path, temp_files, encoded,
                   requests, raw>>

\* the receipts of a parsed document: "Normalize to a list of receipts"
ReceiptsOf(value) == IF value.t = "dict" THEN <<value>> ELSE value.items

\* the finish reasons of an answer
FinishReasons == {"stop", "length"}

\* the calls of _extract_json: with raw, and when that raised with the fixed text
ParseCalls(text) == IF ExtractJson(text).ok THEN <<text>> ELSE <<text, RepairJson(text)>>

\* from the try around _extract_json to the end of scan_receipt
ScanFinish(text) ==
    LET parsed == ParseOrRepair(text)
    IN  IF ~parsed.ok THEN ScanErrorRaw(FailedToParse, text)
        ELSE IF parsed.value.t \notin {"dict", "list"} THEN ScanError(UnexpectedFormat)
        ELSE IF \E i \in DOMAIN ReceiptsOf(parsed.value) :
                    ValidateAndCleanRaises(ReceiptsOf(parsed.value)[i])
        THEN ScanRaised("AttributeError")
        ELSE ScanList([i \in DOMAIN ReceiptsOf(parsed.value) |->
                          ValidateAndClean(ReceiptsOf(parsed.value)[i])])

\* the first client.chat.completions.create raises, outside any try
VisionCallRaises ==
    /\ scan_pc = "call"
    /\ requests' = Append(requests, FirstRequest(encoded))
    /\ scan_outcome' = ScanRaised("APIError")
    /\ scan_pc' = "done"
    /\ UNCHANGED <<qvars, wvars>>
    /\ UNCHANGED <<finish_reason, extract_calls, image_ext, image_path, temp_files, disk,
                   encoded, raw>>

\* the model answers with no content, or with an empty list of parts: "if not raw"
VisionCallReturnsEmpty ==
    /\ scan_pc = "call"
    /\ requests' = Append(requests, FirstRequest(encoded))
    /\ scan_outcome' = ScanError(EmptyResponse)
    /\ \E reason \in FinishReasons : finish_reason' = reason
    /\ scan_pc' = "done"
    /\ UNCHANGED <<qvars, wvars>>
    /\ UNCHANGED <<extract_calls, image_ext, image_path, temp_files, disk, encoded, raw>>

\* the texts of a first answer: a string, or parts joined with "\n"
FirstAnswers == RawTexts \cup {JoinWith(ps, "\n") : ps \in PartLists \ {<<>>}}

\* the model answers in full: parse, repair, normalise, clean up, return
VisionCallReturns ==
    /\ scan_pc = "call"
    /\ requests' = Append(requests, FirstRequest(encoded))
    /\ \E text \in FirstAnswers :
        /\ raw' = text
        /\ scan_outcome' = ScanFinish(text)
    /\ disk' = RemoveTempFiles
    /\ \E reason \in FinishReasons \ {"length"} : finish_reason' = reason
    /\ extract_calls' = ParseCalls(raw')
    /\ scan_pc' = "done"
    /\ UNCHANGED <<qvars, wvars>>
    /\ UNCHANGED <<image_ext, image_path, temp_files, encoded>>

\* the model's answer was cut: finish_reason == "length"
VisionCallTruncated ==
    /\ scan_pc = "call"
    /\ requests' = Append(requests, FirstRequest(encoded))
    /\ \E text \in FirstAnswers : raw' = text
    /\ finish_reason' = "length"
    /\ scan_pc' = "continue"
    /\ UNCHANGED <<qvars, wvars>>
    /\ UNCHANGED <<extract_calls, image_ext, image_path, temp_files, disk, encoded, scan_outcome>>

\* the continuation asked without the partial answer
ContinuationWithoutContext ==
    FirstRequest(encoded)
    \o <<[role |-> "user", text |-> <<"<CONTINUE>">>, image |-> NotEncoded]>>

\* the second message list: the first, the partial answer, the request to go on
ContinuationRequest ==
    FirstRequest(encoded)
    \o <<[role |-> "assistant", text |-> raw, image |-> NotEncoded],
         [role |-> "user", text |-> <<"<CONTINUE>">>, image |-> NotEncoded]>>

\* the continuation call raises, outside any try
ContinuationRaises ==
    /\ scan_pc = "continue"
    /\ requests' = Append(requests, ContinuationRequest)
    /\ scan_outcome' = ScanRaised("APIError")
    /\ scan_pc' = "done"
    /\ UNCHANGED <<qvars, wvars>>
    /\ UNCHANGED <<finish_reason, extract_calls, image_ext, image_path, temp_files, disk,
                   encoded, raw>>

\* the continuation answers (with nothing, or a text that is appended); then as
\* for a full answer
ContinuationReturns ==
    /\ scan_pc = "continue"
    /\ requests' = Append(requests, ContinuationRequest)
    /\ \E cont_raw \in ContinuationTexts \cup {<<>>} :
        /\ raw' = raw \o cont_raw
        /\ scan_outcome' = ScanFinish(raw \o cont_raw)
    /\ disk' = RemoveTempFiles
    /\ extract_calls' = ParseCalls(raw')
    /\ scan_pc' = "done"
    /\ UNCHANGED <<qvars, wvars>>
    /\ UNCHANGED <<finish_reason, image_ext, image_path, temp_files, encoded>>

SNext ==
    \/ ConvertPdfRaises
    \/ ConvertPdfEmpty
    \/ ConvertPdfReturns
    \/ EncodeResized
    \/ EncodeFallback
    \/ EncodeFails
    \/ VisionCallRaises
    \/ VisionCallReturnsEmpty
    \/ VisionCallReturns
    \/ VisionCallTruncated
    \/ ContinuationRaises
    \/ ContinuationReturns

(***************************************************************************)
(* The /api/scan route, from the saved upload to the response               *)
(***************************************************************************)
NoResponse == [status |-> 0, error |-> NoError, receipts |-> 0, photo_data |-> "None"]

\* no request to the route in this behaviour
TIdle ==
    /\ route_pc = "idle"
    /\ uploads = {}
    /\ photo_data = "None"
    /\ response = NoResponse

\* ALLOWED_EXTENSIONS, with the dot of the model's extensions
ALLOWED_EXTENSIONS == {".png", ".jpg", ".jpeg", ".gif", ".webp", ".pdf"}

\* the route has saved an allowed upload and calls scan_receipt with its path
TInit ==
    /\ SInit
    /\ image_ext \in ALLOWED_EXTENSIONS
    /\ route_pc = "scanning"
    /\ uploads = {Upload}
    /\ photo_data = "None"
    /\ response = NoResponse

\* scan_receipt raised: "except Exception" answers 500
ScanRouteCatches ==
    /\ route_pc = "scanning"
    /\ scan_pc = "done"
    /\ scan_outcome.kind = "raise"
    /\ response' = [NoResponse EXCEPT !.status = 500, !.error = "Scan failed"]
    /\ route_pc' = "done"
    /\ UNCHANGED <<qvars, svars, zvars, lvars, rvars, uploads, photo_data>>

\* scan_receipt returned a dict with "error": it is answered with 500
ScanRouteError ==
    /\ route_pc = "scanning"
    /\ scan_pc = "done"
    /\ scan_outcome.kind = "error"
    /\ response' = [NoResponse EXCEPT !.status = 500, !.error = scan_outcome.error]
    /\ route_pc' = "done"
    /\ UNCHANGED <<qvars, svars, zvars, lvars, rvars, uploads, photo_data>>

\* os.path.exists(jpg_path)
PagePresent == Page0 \in disk

\* "Read and encode image for database storage": what photo_data becomes when
\* the files can be read
PhotoRead ==
    IF image_ext = ".pdf"
    THEN IF PagePresent THEN Page0 ELSE "None"
    ELSE Upload

\* scan_receipt returned receipts: the photo is read (or the read raises, which
\* is passed over), the page file and the upload are removed, and every receipt
\* is answered with the photo
ScanRouteAttaches ==
    /\ route_pc = "scanning"
    /\ scan_pc = "done"
    /\ scan_outcome.kind = "list"
    /\ \E readable \in BOOLEAN :
        photo_data' = IF readable THEN PhotoRead ELSE "None"
    /\ disk' = IF image_ext = ".pdf" /\ photo_data' = Page0 THEN disk \ {Page0} ELSE disk
    /\ uploads' = uploads \ {Upload}
    /\ response' = [NoResponse EXCEPT !.status = 200,
                                      !.receipts = scan_outcome.receipts,
                                      !.photo_data = photo_data']
    /\ route_pc' = "done"
    /\ UNCHANGED <<qvars, zvars, lvars, rvars>>
    /\ UNCHANGED <<scan_pc, image_ext, image_path, temp_files, encoded, requests, raw,
                   finish_reason, extract_calls, scan_outcome>>

TNext ==
    \/ ScanRouteCatches
    \/ ScanRouteError
    \/ ScanRouteAttaches

(***************************************************************************)
(* _resize_image_if_needed, one action per stretch of code between two     *)
(* calls of the imaging library                                            *)
(***************************************************************************)
max_size_mb == 5

max_dimension == 1280

\* max_bytes = max_size_mb * 1024 * 1024
max_bytes == max_size_mb * 1024 * 1024

NoImage == [mode |-> "none", width |-> 0, height |-> 0]

NotReturned == [kind |-> "running", bytes |-> 0, width |-> 0, height |-> 0]

\* no call of _resize_image_if_needed in this behaviour
ZIdle ==
    /\ resize_pc = "idle"
    /\ img = NoImage
    /\ quality = 0
    /\ buffer = 0
    /\ resize_result = NotReturned

\* the images a caller hands in
Images ==
    [mode : {"RGB", "RGBA"},
     width : {1, 640, max_dimension, max_dimension + 1, 2 * max_dimension, 4000},
     height : {1, 640, max_dimension, max_dimension + 1, 2 * max_dimension, 4000}]

\* the sizes the JPEG encoder gives an encoding; which one is the encoder's
\* matter, and nothing in the function bounds it
EncodedSizes == {max_bytes - 1, max_bytes, max_bytes + 1, 2 * max_bytes}

ZInit ==
    /\ resize_pc = "open"
    /\ img \in Images
    /\ quality = 0
    /\ buffer = 0
    /\ resize_result = NotReturned

\* Image.open or img.convert raise: the file is no image the library can decode
OpenRaises ==
    /\ resize_pc = "open"
    /\ resize_result' = [NotReturned EXCEPT !.kind = "raise"]
    /\ resize_pc' = "done"
    /\ UNCHANGED <<qvars, svars, tvars, lvars, rvars, img, quality, buffer>>

\* int(x * ratio) with ratio = max_dimension / longest, in floating point: the
\* floor of the exact quotient, or one less where the quotient is an integer
\* and the product was rounded below it
ScaledToInt(x, longest) ==
    {(x * max_dimension) \div longest}
        \cup (IF (x * max_dimension) % longest = 0 /\ x * max_dimension >= longest
              THEN {(x * max_dimension) \div longest - 1}
              ELSE {})

\* "if img.width > max_dimension or img.height > max_dimension"
NeedsResize(i) == i.width > max_dimension \/ i.height > max_dimension

\* the image is opened, made RGB where its mode asks for it, and kept as it is
\* where neither side is longer than max_dimension
OpenKeepsSize ==
    /\ resize_pc = "open"
    /\ ~NeedsResize(img)
    /\ img' = [img EXCEPT !.mode = "RGB"]
    /\ resize_pc' = "save"
    /\ UNCHANGED <<qvars, svars, tvars, lvars, rvars, quality, buffer, resize_result>>

\* the image is opened and scaled by min(max_dimension / width, max_dimension /
\* height); img.resize raises for a side of 0
OpenResizes ==
    /\ resize_pc = "open"
    /\ NeedsResize(img)
    /\ LET longest == IF img.width >= img.height THEN img.width ELSE img.height
       IN  \E w \in ScaledToInt(img.width, longest), h \in ScaledToInt(img.height, longest) :
               IF w = 0 \/ h = 0
               THEN /\ resize_result' = [NotReturned EXCEPT !.kind = "raise"]
                    /\ resize_pc' = "done"
                    /\ img' = img
               ELSE /\ img' = [mode |-> "RGB", width |-> w, height |-> h]
                    /\ resize_pc' = "save"
                    /\ resize_result' = resize_result
    /\ UNCHANGED <<qvars, svars, tvars, lvars, rvars, quality, buffer>>

\* quality = 75; img.save(buffer, format="JPEG", quality=quality)
FirstSave ==
    /\ resize_pc = "save"
    /\ quality' = 75
    /\ \E size \in EncodedSizes : buffer' = size
    /\ resize_pc' = "loop"
    /\ UNCHANGED <<qvars, svars, tvars, lvars, rvars, img, resize_result>>

\* the loop going on while the encoding is over budget, whatever the quality
OverBudget == buffer > max_bytes

\* "while buffer.tell() > max_bytes and quality > 30"
LoopCondition == buffer > max_bytes /\ quality > 30

\* the loop body: quality -= 10; img.save into a fresh buffer; a lower quality
\* gives no longer an encoding
SaveAgain ==
    /\ resize_pc = "loop"
    /\ LoopCondition
    /\ quality' = quality - 10
    /\ \E size \in EncodedSizes : size <= buffer /\ buffer' = size
    /\ UNCHANGED <<qvars, svars, tvars, lvars, rvars, resize_pc, img, resize_result>>

\* the loop is left: return buffer.getvalue()
ResizeReturns ==
    /\ resize_pc = "loop"
    /\ ~LoopCondition
    /\ resize_result' = [kind |-> "bytes", bytes |-> buffer,
                         width |-> img.width, height |-> img.height]
    /\ resize_pc' = "done"
    /\ UNCHANGED <<qvars, svars, tvars, lvars, rvars, img, quality, buffer>>

ZNext ==
    \/ OpenRaises
    \/ OpenKeepsSize
    \/ OpenResizes
    \/ FirstSave
    \/ SaveAgain
    \/ ResizeReturns

(***************************************************************************)
(* /login and /signup behind the rate limit, requests of one client        *)
(* address handled by NumHandlers threads                                  *)
(***************************************************************************)
RATE_LIMIT_ATTEMPTS == 5

RATE_LIMIT_WINDOW == 60

NumHandlers == 2

MaxRequests == 7

\* the clock moves in steps of TickSeconds up to MaxClock
TickSeconds == 30

MaxClock == 90

Handlers == 1..NumHandlers

\* the emails of the forms; "a" is registered from the start
Emails == {"a", "b"}

NoRequest == [pc |-> "idle", route |-> "none"]

\* no request to /login or /signup in this behaviour
LIdle ==
    /\ login_attempts = <<>>
    /\ now = 0
    /\ users = {}
    /\ handlers = [h \in Handlers |-> NoRequest]
    /\ handled = MaxRequests
    /\ checks = <<>>

LInit ==
    /\ login_attempts = <<>>
    /\ now = 0
    /\ users = {"a"}
    /\ handlers = [h \in Handlers |-> NoRequest]
    /\ handled = 0
    /\ checks = <<>>

\* "Clean old attempts": [t for t in login_attempts[ip] if t > cutoff]
CleanOld(attempts, at) == SelectSeq(attempts, LAMBDA t : t > at - RATE_LIMIT_WINDOW)

\* is_rate_limited, once the old attempts are cleaned
IsRateLimited(attempts) == Len(attempts) >= RATE_LIMIT_ATTEMPTS

\* clear_login_attempts: login_attempts[ip] = []
ClearLoginAttempts(attempts) == <<>>

\* record_login_attempt
RecordLoginAttempt(attempts, at) == Append(attempts, at)

\* a POST to /login or /signup arrives while the address is rate limited: the
\* old attempts are cleaned and the request is answered with the flash message
RequestLimited(h) ==
    /\ handlers[h].pc = "idle"
    /\ handled < MaxRequests
    /\ IsRateLimited(CleanOld(login_attempts, now))
    /\ login_attempts' = CleanOld(login_attempts, now)
    /\ handled' = handled + 1
    /\ UNCHANGED <<qvars, svars, tvars, zvars, rvars, now, users, handlers, checks>>

\* a POST arrives while the address is not rate limited: the handler goes on
RequestAdmitted(h) ==
    /\ handlers[h].pc = "idle"
    /\ handled < MaxRequests
    /\ ~IsRateLimited(CleanOld(login_attempts, now))
    /\ login_attempts' = CleanOld(login_attempts, now)
    /\ \E route \in {"login", "signup"} :
        handlers' = [handlers EXCEPT ![h] = [pc |-> "admitted", route |-> route]]
    /\ handled' = handled + 1
    /\ UNCHANGED <<qvars, svars, tvars, zvars, rvars, now, users, checks>>

\* /login: the user is found and the password matches; the attempts are cleared
LoginSucceeds(h) ==
    /\ handlers[h] = [pc |-> "admitted", route |-> "login"]
    /\ users # {}
    /\ checks' = Append(checks, [time |-> now, ok |-> TRUE])
    /\ login_attempts' = ClearLoginAttempts(login_attempts)
    /\ handlers' = [handlers EXCEPT ![h] = NoRequest]
    /\ UNCHANGED <<qvars, svars, tvars, zvars, rvars, now, users, handled>>

\* /login: no such user or a wrong password; the attempt is recorded
LoginFails(h) ==
    /\ handlers[h] = [pc |-> "admitted", route |-> "login"]
    /\ checks' = Append(checks, [time |-> now, ok |-> FALSE])
    /\ login_attempts' = RecordLoginAttempt(login_attempts, now)
    /\ handlers' = [handlers EXCEPT ![h] = NoRequest]
    /\ UNCHANGED <<qvars, svars, tvars, zvars, rvars, now, users, handled>>

\* /signup: email or password missing, or the password too weak
SignupInvalid(h) ==
    /\ handlers[h] = [pc |-> "admitted", route |-> "signup"]
    /\ handlers' = [handlers EXCEPT ![h] = NoRequest]
    /\ UNCHANGED <<qvars, svars, tvars, zvars, rvars, login_attempts, now, users, handled,
                   checks>>

\* /signup: "Email already registered"; the attempt is recorded
SignupExisting(h) ==
    /\ handlers[h] = [pc |-> "admitted", route |-> "signup"]
    /\ users # {}
    /\ login_attempts' = RecordLoginAttempt(login_attempts, now)
    /\ handlers' = [handlers EXCEPT ![h] = NoRequest]
    /\ UNCHANGED <<qvars, svars, tvars, zvars, rvars, now, users, handled, checks>>

\* /signup: the account is created; the attempts are cleared
SignupCreates(h) ==
    /\ handlers[h] = [pc |-> "admitted", route |-> "signup"]
    /\ \E email \in Emails \ users : users' = users \cup {email}
    /\ login_attempts' = ClearLoginAttempts(login_attempts)
    /\ handlers' = [handlers EXCEPT ![h] = NoRequest]
    /\ UNCHANGED <<qvars, svars, tvars, zvars, rvars, now, handled, checks>>

\* time passes
Tick ==
    /\ handled < MaxRequests
    /\ now + TickSeconds <= MaxClock
    /\ now' = now + TickSeconds
    /\ UNCHANGED <<qvars, svars, tvars, zvars, rvars, login_attempts, users, handlers, handled,
                   checks>>

LNext ==
    \/ \E h \in Handlers : RequestLimited(h)
    \/ \E h \in Handlers : RequestAdmitted(h)
    \/ \E h \in Handlers : LoginSucceeds(h)
    \/ \E h \in Handlers : LoginFails(h)
    \/ \E h \in Handlers : SignupInvalid(h)
    \/ \E h \in Handlers : SignupExisting(h)
    \/ \E h \in Handlers : SignupCreates(h)
    \/ Tick

(***************************************************************************)
(* POST /api/receipts and PUT /api/receipts/<id>: NumRequests requests of  *)
(* one user, each in its own database session; a session reads what is     *)
(* committed and what it has added itself, and its writes reach the tables *)
(* at its commit                                                           *)
(***************************************************************************)
NumRequests == 2

ApiRequests == 1..NumRequests

\* JSON null / a missing key
NoneText == <<"None">>

S_Aldi == <<"A","l","d","i">>

S_aldi_padded == <<" ","A","L","D","I"," ">>

S_Lidl == <<"L","i","d","l">>

StoreNames == {NoneText, <<" ">>, S_Aldi, S_aldi_padded, S_Lidl}

ReceiptDates == {"2024-01-05"}

Totals == {5, 7}

\* the normalized names of the items of a request; "None" is an item without one
ItemLists == {<<>>, <<"Milk">>, <<"Milk", "Eggs">>, <<"Milk", "Milk">>, <<"None">>}

\* the ids PUT is called with; NumReceipts + 1 is no receipt
NumReceipts == 2

ReceiptIds == 1..(NumReceipts + 1)

NoData == [store_name |-> NoneText, receipt_date |-> "None", total |-> 0, has_items |-> FALSE,
           items |-> <<>>, receipt_id |-> 0]

NoSession == [deleted |-> FALSE, line_items |-> <<>>, normalized_items |-> <<>>, todo |-> <<>>,
              fields |-> <<>>]

NoApiResponse == [status |-> 0, duplicate_id |-> 0, exc |-> "None"]

ApiIdle == [pc |-> "idle", method |-> "none", data |-> NoData, session |-> NoSession,
            response |-> NoApiResponse]

\* no /api/receipts request in this behaviour
RIdle ==
    /\ receipt_rows = <<>>
    /\ line_items = <<>>
    /\ normalized_items = <<>>
    /\ api = [r \in ApiRequests |-> [ApiIdle EXCEPT !.pc = "done"]]

\* what the user has stored before the requests: two receipts that differ
RInit ==
    /\ \E store \in {S_Aldi, NoneText} :
        receipt_rows = <<[receipt_date |-> "2024-01-05", total |-> 5, store_name |-> store],
                         [receipt_date |-> "2024-01-05", total |-> 7, store_name |-> S_Lidl]>>
    /\ \E items \in {<<"Bread">>, <<>>} :
        /\ line_items = <<items, <<>> >>
        /\ normalized_items = items
    /\ api = [r \in ApiRequests |-> ApiIdle]

\* (name or "")
OrEmpty(name) == IF name = NoneText THEN <<>> ELSE name

\* the store name as the request gave it
StoreNameRaw(name) == OrEmpty(name)

\* (name or "").strip().lower()
StoreNameKey(name) == Lower(Strip(OrEmpty(name)))

\* Receipt.query.filter_by(user_id, receipt_date, total).all(), then the loop
\* over the candidates: the ids of those the loop does not skip
DuplicateCandidates(data) ==
    {id \in DOMAIN receipt_rows :
        /\ receipt_rows[id].receipt_date = data.receipt_date
        /\ receipt_rows[id].total = data.total
        /\ StoreNameKey(receipt_rows[id].store_name) = StoreNameKey(data.store_name)
        /\ Len(line_items[id]) = Len(data.items)}

\* the first candidate the loop returns on
FirstDuplicate(data) ==
    CHOOSE id \in DuplicateCandidates(data) : \A other \in DuplicateCandidates(data) : id <= other

Finish(r, status, dup, exc) ==
    [api[r] EXCEPT !.pc = "done", !.session = NoSession,
                   !.response = [status |-> status, duplicate_id |-> dup, exc |-> exc]]

\* the bodies POST /api/receipts is called with
PostBodies ==
    {[store_name |-> store, receipt_date |-> day, total |-> total, has_items |-> TRUE,
      items |-> items, receipt_id |-> 0] :
        store \in StoreNames, day \in ReceiptDates, total \in Totals, items \in ItemLists}

\* the bodies PUT /api/receipts/<id> is called with; total 0 is no "total" key
PutBodies ==
    {[store_name |-> NoneText, receipt_date |-> "None", total |-> total, has_items |-> has,
      items |-> items, receipt_id |-> id] :
        total \in {0, 5}, has \in BOOLEAN, items \in ItemLists, id \in ReceiptIds}

\* create_receipt: no body, or no total
CreateReceiptBadRequest(r) ==
    /\ api[r].pc = "idle"
    /\ api' = [api EXCEPT ![r] = [Finish(r, 400, 0, "None") EXCEPT !.method = "POST"]]
    /\ UNCHANGED <<qvars, svars, tvars, zvars, lvars, receipt_rows, line_items, normalized_items>>

\* create_receipt: a candidate matches; 409 with its id
CreateReceiptDuplicate(r) ==
    /\ api[r].pc = "idle"
    /\ \E data \in PostBodies :
        /\ DuplicateCandidates(data) # {}
        /\ api' = [api EXCEPT ![r] = [Finish(r, 409, FirstDuplicate(data), "None")
                                         EXCEPT !.method = "POST", !.data = data]]
    /\ UNCHANGED <<qvars, svars, tvars, zvars, lvars, receipt_rows, line_items, normalized_items>>

\* create_receipt: no candidate matches; Receipt(..., photo_data=...) raises
\* TypeError, the model has no such attribute, and nothing is added
CreateReceiptRaises(r) ==
    /\ api[r].pc = "idle"
    /\ \E data \in PostBodies :
        /\ DuplicateCandidates(data) = {}
        /\ api' = [api EXCEPT ![r] = [Finish(r, 500, 0, "TypeError")
                                         EXCEPT !.method = "POST", !.data = data]]
    /\ UNCHANGED <<qvars, svars, tvars, zvars, lvars, receipt_rows, line_items, normalized_items>>

\* update_receipt: no such receipt of the user
UpdateReceiptNotFound(r) ==
    /\ api[r].pc = "idle"
    /\ \E data \in PutBodies :
        /\ data.receipt_id \notin DOMAIN receipt_rows
        /\ api' = [api EXCEPT ![r] = [Finish(r, 404, 0, "None")
                                         EXCEPT !.method = "PUT", !.data = data]]
    /\ UNCHANGED <<qvars, svars, tvars, zvars, lvars, receipt_rows, line_items, normalized_items>>

\* update_receipt: the fields are set; with "items" the line items of the
\* receipt are deleted in the session and _save_line_items starts
UpdateReceiptBegins(r) ==
    /\ api[r].pc = "idle"
    /\ \E data \in PutBodies :
        /\ data.receipt_id \in DOMAIN receipt_rows
        /\ api' = [api EXCEPT ![r] =
                [pc |-> IF data.has_items /\ data.items # <<>> THEN "saving" ELSE "committing",
                 method |-> "PUT",
                 data |-> data,
                 session |-> [NoSession EXCEPT !.deleted = data.has_items,
                                               !.todo = IF data.has_items THEN data.items ELSE <<>>,
                                               !.fields = IF data.total = 0 THEN <<>>
                                                          ELSE <<data.total>>],
                 response |-> NoApiResponse]]
    /\ UNCHANGED <<qvars, svars, tvars, zvars, lvars, receipt_rows, line_items, normalized_items>>

\* _upsert_normalized: what it adds to the session for this name
UpsertNormalized(r, name) ==
    IF name = "None" THEN <<>>
    ELSE IF name \in Range(normalized_items) \cup Range(api[r].session.normalized_items)
    THEN <<>>
    ELSE <<name>>

\* _save_line_items: one turn of its loop
SaveLineItem(r) ==
    /\ api[r].pc = "saving"
    /\ LET name == Head(api[r].session.todo)
           rest == Tail(api[r].session.todo)
       IN  api' = [api EXCEPT ![r].pc = IF rest = <<>> THEN "committing" ELSE "saving",
                              ![r].session.todo = rest,
                              ![r].session.line_items = Append(@, name),
                              ![r].session.normalized_items = @ \o UpsertNormalized(r, name)]
    /\ UNCHANGED <<qvars, svars, tvars, zvars, lvars, receipt_rows, line_items, normalized_items>>

\* uq_normalized_user_name: the rows of the session that the table refuses
UniqueViolations(r) == Range(api[r].session.normalized_items) \cap Range(normalized_items)

\* db.session.commit() of update_receipt succeeds
UpdateReceiptCommits(r) ==
    /\ api[r].pc = "committing"
    /\ UniqueViolations(r) = {}
    /\ LET id == api[r].data.receipt_id
           session == api[r].session
       IN  /\ receipt_rows' = IF session.fields = <<>> THEN receipt_rows
                               ELSE [receipt_rows EXCEPT ![id].total = session.fields[1]]
           /\ line_items' = IF session.deleted
                             THEN [line_items EXCEPT ![id] = session.line_items]
                             ELSE line_items
           /\ normalized_items' = normalized_items \o session.normalized_items
    /\ api' = [api EXCEPT ![r] = Finish(r, 200, 0, "None")]
    /\ UNCHANGED <<qvars, svars, tvars, zvars, lvars>>

\* db.session.commit() of update_receipt raises IntegrityError: the session
\* is rolled back and the request ends as a 500
UpdateReceiptCommitRaises(r) ==
    /\ api[r].pc = "committing"
    /\ UniqueViolations(r) # {}
    /\ api' = [api EXCEPT ![r] = Finish(r, 500, 0, "IntegrityError")]
    /\ UNCHANGED <<qvars, svars, tvars, zvars, lvars, receipt_rows, line_items, normalized_items>>

\* the steps of POST /api/receipts
CreateNext ==
    \/ \E r \in ApiRequests : CreateReceiptBadRequest(r)
    \/ \E r \in ApiRequests : CreateReceiptDuplicate(r)
    \/ \E r \in ApiRequests : CreateReceiptRaises(r)

\* the steps of PUT /api/receipts/<id>
UpdateNext ==
    \/ \E r \in ApiRequests : UpdateReceiptNotFound(r)
    \/ \E r \in ApiRequests : UpdateReceiptBegins(r)
    \/ \E r \in ApiRequests : SaveLineItem(r)
    \/ \E r \in ApiRequests : UpdateReceiptCommits(r)
    \/ \E r \in ApiRequests : UpdateReceiptCommitRaises(r)

RNext == CreateNext \/ UpdateNext

\* the other parts at rest
WIdle == TIdle /\ ZIdle /\ LIdle /\ RIdle

\* one call of one of the two entry points
Init == ((QInit /\ SIdle) \/ (QIdle /\ SInit)) /\ WIdle

Next == QNext \/ SNext

Spec == Init /\ [][Next]_vars

\* one request to the /api/scan route
ScanRouteInit == QIdle /\ TInit /\ ZIdle /\ LIdle /\ RIdle

ScanRouteNext == SNext \/ TNext

ScanRouteSpec == ScanRouteInit /\ [][ScanRouteNext]_vars

\* one call of run_query under any of the configurations
DialectInit ==
    /\ \E url \in DatabaseUrls : QStart(DatabaseUri(url))
    /\ SIdle
    /\ WIdle

DialectSpec == DialectInit /\ [][QNext]_vars

\* the requests of one client address to /login and /signup
LoginInit == QIdle /\ SIdle /\ TIdle /\ ZIdle /\ LInit /\ RIdle

\* the requests of one user to /api/receipts
ReceiptInit == QIdle /\ SIdle /\ TIdle /\ ZIdle /\ LIdle /\ RInit

ReceiptSpec == ReceiptInit /\ [][RNext]_vars

\* POST /api/receipts alone
CreateSpec == ReceiptInit /\ [][CreateNext]_vars

LoginSpec == LoginInit /\ [][LNext]_vars

\* one call of _resize_image_if_needed
ResizeInit == QIdle /\ SIdle /\ TIdle /\ ZInit /\ LIdle /\ RIdle

ResizeSpec == ResizeInit /\ [][ZNext]_vars

(***************************************************************************)
(* Vocabulary of the properties                                            *)
(***************************************************************************)
\* where the word that starts at position i of s ends
WordEnd(s, i) == CHOOSE j \in i..Len(s) : (\A k \in i..j : IsWordChar(s[k])) /\ ~WordAt(s, j + 1)

\* the words of a text (its maximal runs of word characters), in upper case
WordsOf(s) ==
    LET up == Upper(s)
    IN  {Slice(up, i, WordEnd(s, i)) : i \in {k \in DOMAIN s : WordAt(s, k) /\ ~WordAt(s, k - 1)}}

\* the statement without surrounding whitespace and trailing semicolons
Trimmed(s) == RStripSemi(Strip(s))

\* the first keyword of a statement, in upper case
FirstKeyword(s) ==
    LET t == Trimmed(s)
        stop == {i \in DOMAIN t : ~IsWordChar(t[i])}
    IN  Upper(IF stop = {} THEN t
              ELSE Slice(t, 1, (CHOOSE i \in stop : \A j \in stop : i <= j) - 1))

HasDangerousWord(s) == WordsOf(s) \cap DangerousWords # {}

HasDangerousLetters(s) == \E w \in DangerousWords : Contains(Upper(s), w)

HasLimitClause(s) == T_LIMIT \in WordsOf(s)

\* the statements of a text: its pieces between semicolons that are not blank
StatementCount(s) ==
    LET pieces == SplitOn(s, ";")
    IN  Cardinality({i \in DOMAIN pieces : Strip(pieces[i]) # <<>>})

ReadsReceipts(s) == T_receipts \in {Lower(w) : w \in WordsOf(s)}

LimitSuffix == <<" ">> \o T_LIMIT \o <<" ">> \o DecimalOf(MAX_ROWS)

Validated == verdict # NoVerdict

Rejected == Validated /\ ~verdict.valid

(***************************************************************************)
(* Properties of run_query                                                 *)
(***************************************************************************)
\* C1: every finished call of run_query has produced exactly one audit entry
\* (the log was empty before the call)
AuditExactlyOnce == pc = "done" => Len(query_log) = 1

\* C2: execution happens only after _validate_sql accepted; a rejected statement
\* is never handed to db.session.execute, and a call that rejected ends with the
\* REJECTED audit entry as its only database effect and with {error: reason, sql}
\* as its return value
ValidationPrecedesExecution ==
    /\ executed # <<>> => Validated /\ verdict.valid
    /\ Rejected =>
        /\ executed = <<>>
        /\ pc = "done" =>
            /\ query_log = <<RejectedLog>>
            /\ RejectedLog.generated_sql = validated_sql
            /\ RejectedLog.result_summary.tag = "REJECTED"
            /\ outcome = ErrorDict([msg |-> verdict.error, detail |-> <<>>], validated_sql)

\* C3: a statement is accepted only if its first keyword is exactly SELECT; any
\* other first keyword is rejected with 'Query must be a SELECT statement.'
FirstKeywordMustBeSelect ==
    Validated =>
        /\ verdict.valid => FirstKeyword(validated_sql) = T_SELECT
        /\ FirstKeyword(validated_sql) # T_SELECT =>
               verdict = [valid |-> FALSE, error |-> MustBeSelect]

\* C4: every statement holding a forbidden keyword as a whole word is rejected,
\* and a SELECT statement holding none as a whole word is not rejected, also when
\* the letters of one occur inside a longer identifier
WholeWordKeywordsRejected ==
    Validated =>
        /\ HasDangerousWord(validated_sql) => ~verdict.valid
        /\ (FirstKeyword(validated_sql) = T_SELECT /\ ~HasDangerousWord(validated_sql))
               => verdict.valid

IdentifierWithKeywordAccepted ==
    /\ Validated
    /\ verdict.valid
    /\ FirstKeyword(validated_sql) = T_SELECT
    /\ HasDangerousLetters(validated_sql)

\* C5: an accepted statement without a LIMIT clause is executed with ' LIMIT 500'
\* appended after its trailing semicolons are removed, one with a LIMIT clause is
\* executed unchanged
RowCapRewrite ==
    executed # <<>> =>
        executed[1].sql = IF HasLimitClause(validated_sql)
                          THEN validated_sql
                          ELSE RStripSemi(validated_sql) \o LimitSuffix

\* C6: a returned result never holds more than MAX_ROWS rows
RowCapBoundsResult == outcome.kind = "result" => outcome.rows <= MAX_ROWS

\* C7: text of more than one statement never reaches db.session.execute
OnlySingleStatementExecuted ==
    \A i \in DOMAIN executed : StatementCount(executed[i].sql) <= 1

\* C8: every executed statement that reads receipts references :user_id, and no
\* result holds a row owned by another user
UserScopingEnforced ==
    /\ \A i \in DOMAIN executed :
           ReadsReceipts(executed[i].sql) => ReferencesUserId(executed[i].sql)
    /\ outcome.kind = "result" => ~outcome.foreign

\* C9: the only bound parameter of an execution is user_id, bound to the caller's
\* user_id; the executed text is the fence-stripped model answer, with at most the
\* LIMIT clause appended; the question only fills the prompt
OnlyUserIdBound ==
    /\ pc # "start" => prompt = question
    /\ \A i \in DOMAIN executed :
        /\ executed[i].params = {<<"user_id", user_id>>}
        /\ executed[i].sql \in {StripFences(content),
                                RStripSemi(StripFences(content)) \o LimitSuffix}

ExecutedForInjectingQuestion ==
    /\ executed # <<>>
    /\ question = Q_inject
    /\ ReferencesUserId(executed[1].sql)

\* C17: an executed statement that holds SUM( or TOTAL and fetched no row gives
\* one synthesised row over all result columns, '$0.00' in the columns named
\* with a money keyword and 0 in the others, and the summary '1 row(s) returned'
EmptyAggregateRow ==
    (outcome.kind = "result" /\ result.fetched = <<>>
        /\ (Contains(Upper(outcome.sql), T_SUM) \/ Contains(Upper(outcome.sql), T_TOTAL))) =>
        /\ outcome.rows = 1
        /\ outcome.summary = RowsSummary(1)
        /\ DOMAIN outcome.row = DOMAIN outcome.columns
        /\ \A i \in DOMAIN outcome.columns :
               outcome.row[i] = IF \E kw \in MoneyKeywords : Contains(Lower(outcome.columns[i]), kw)
                                THEN Cell("str", 0, <<"$","0",".","0","0">>)
                                ELSE Cell("int", 0, <<>>)

EmptyAggregateReturned ==
    /\ outcome.kind = "result"
    /\ result.fetched = <<>>
    /\ Contains(Upper(outcome.sql), T_SUM)
    /\ outcome.columns = <<C_visits, C_Tip>>
    /\ outcome.rows = 1

\* C18: in the returned rows a money column holds '$0.00' for NULL and
\* '$' + grouped amount with two decimals for every number, and no other column
\* holds a value that was made a currency string
MoneyShaping ==
    (outcome.kind = "result" /\ result.fetched # <<>>) =>
        \A i \in DOMAIN outcome.columns :
            LET v == result.fetched[i]
                w == outcome.row[i]
            IN  IF \E kw \in MoneyKeywords : Contains(Lower(outcome.columns[i]), kw)
                THEN /\ v.t = "none" => w = Cell("str", 0, <<"$","0",".","0","0">>)
                     /\ v.t \in {"int", "float", "decimal"} =>
                            w = Cell("str", 0, FormatMoney(v.n))
                ELSE w = v \/ (w.t = "str" /\ w.text = v.text)

\* C24: when execute, fetch, shaping or the success-path commit raised, the
\* session is rolled back before the ERROR audit entry is added: the entry is
\* added to a session that holds nothing of the failed transaction, and the
\* commit of the entry commits the entry alone
RollbackPrecedesErrorAudit ==
    /\ pc = "error_audit" => session_new = <<>>
    /\ (pc = "done" /\ error_msg # <<>>) => query_log \in {<<>>, <<ErrorLog>>}

\* the success-path commit raised with the success entry in the session, and the
\* ERROR entry was committed afterwards
ErrorAuditAfterFailedCommit ==
    /\ pc = "done"
    /\ error_msg \in CommitErrors
    /\ query_log = <<ErrorLog>>
    /\ outcome.kind = "error"

P_no_such_table == <<"n","o"," ","s","u","c","h"," ","t","a","b","l","e">>

\* the friendly message of the category the spec gives an error text
CategoryMessage(msg) ==
    LET low == Lower(msg)
    IN  IF Contains(low, P_operator_does_not_exist)
        THEN [msg |-> FriendlyType, detail |-> <<>>]
        ELSE IF Contains(low, P_pattern) \/ Contains(low, P_did_not_match)
        THEN [msg |-> FriendlyDate, detail |-> <<>>]
        ELSE IF Contains(low, P_no_such_column) \/ Contains(low, P_no_such_table)
                \/ Contains(low, P_does_not_exist)
        THEN [msg |-> FriendlyColumn, detail |-> <<>>]
        ELSE IF Contains(low, P_syntax_error)
        THEN [msg |-> FriendlySyntax, detail |-> <<>>]
        ELSE [msg |-> QueryFailed, detail |-> Take(msg, FriendlyPrefixLen)]

\* C25: an execution error is answered with the friendly message of its own
\* category: date or format mismatch, unknown column or table ('no such column',
\* 'no such table', 'does not exist'), syntax error, type mismatch ('operator
\* does not exist'); any other error with 'Query failed: ' and at most the first
\* 100 characters of its text
ErrorMappedToItsCategory ==
    (pc = "done" /\ error_msg # <<>>) => outcome.error = CategoryMessage(error_msg)

T_DATE_TRUNC == <<"D", "A", "T", "E", "_", "T", "R", "U", "N", "C">>
T_DATE_now == <<"D", "A", "T", "E", "(", "'", "n", "o", "w", "'">>

\* the storage backend of a URI: its scheme, without the driver after '+'
Backend(uri) == SplitOn(SplitOn(Lower(uri), ":")[1], "+")[1]

\* the SQLite prompt has no DATE_TRUNC and the PostgreSQL prompt no DATE('now'
TemplatesKeepTheirDialect ==
    /\ \A i \in DOMAIN QUERY_PROMPT_SQLITE : ~Contains(QUERY_PROMPT_SQLITE[i], T_DATE_TRUNC)
    /\ \A i \in DOMAIN QUERY_PROMPT_POSTGRES : ~Contains(QUERY_PROMPT_POSTGRES[i], T_DATE_now)

\* C22: run_query fills the PostgreSQL prompt if and only if the storage
\* backend is PostgreSQL and the SQLite prompt if and only if it is SQLite,
\* one prompt per call; the SQLite prompt has no DATE_TRUNC vocabulary and the
\* PostgreSQL prompt no DATE('now', ...) vocabulary
DialectOfBackend ==
    /\ TemplatesKeepTheirDialect
    /\ pc \notin {"start", "idle"} =>
        /\ prompt_template \in {"QUERY_PROMPT_POSTGRES", "QUERY_PROMPT_SQLITE"}
        /\ prompt_template = "QUERY_PROMPT_POSTGRES" <=> Backend(db_url) = T_postgresql
        /\ prompt_template = "QUERY_PROMPT_SQLITE"
               <=> Backend(db_url) = <<"s", "q", "l", "i", "t", "e">>

(***************************************************************************)
(* Properties of both entry points                                         *)
(***************************************************************************)
\* C10: no exception crosses the boundary of run_query or of scan_receipt: each
\* call ends by returning a value
NoExceptionEscapes == outcome.kind # "raise" /\ scan_outcome.kind # "raise"

(***************************************************************************)
(* Properties of scan_receipt                                              *)
(***************************************************************************)
\* C11: when scan_receipt has ended, on whatever path, no rasterised page file
\* that was written for it is left on disk
TempFilesRemoved == scan_pc = "done" => disk = {}

\* C16: the spec's truncated answer, cut inside the item object of the items
\* array of the receipt object of the outer array, is repaired into valid JSON
\* and returned as a list of one receipt with one item
TruncatedNestedRepaired ==
    (scan_pc = "done" /\ raw = TruncatedNested) =>
        /\ ParseOrRepair(raw).ok
        /\ scan_outcome.kind = "list"
        /\ Len(scan_outcome.list) = 1
        /\ Len(JsonGet(scan_outcome.list[1], K_items).items) = 1

\* C19: the failures 'Failed to parse AI response' and 'Unexpected AI response
\* format' both carry the model's text in a 'raw' field
FailuresCarryRaw ==
    (scan_outcome.kind = "error"
        /\ scan_outcome.error \in {FailedToParse, UnexpectedFormat}) =>
        /\ scan_outcome.has_raw
        /\ scan_outcome.raw = raw

\* the line items of a receipt
ItemsOf(receipt) ==
    LET items == JsonGet(receipt, K_items)
    IN  IF items.t = "list" THEN items.items ELSE <<>>

\* the receipts the model wrote, as parsed
ParsedReceipts == ReceiptsOf(ParseOrRepair(raw).value)

\* a receipt of the returned list, and the line of it, that satisfies P
SomeReturnedItem(P(_, _)) ==
    /\ scan_outcome.kind = "list"
    /\ \E i \in DOMAIN scan_outcome.list :
        \E j \in DOMAIN ItemsOf(scan_outcome.list[i]) :
            P(ItemsOf(ParsedReceipts[i])[j], ItemsOf(scan_outcome.list[i])[j])

AllReturnedItems(P(_, _)) ==
    scan_outcome.kind = "list" =>
        \A i \in DOMAIN scan_outcome.list :
            \A j \in DOMAIN ItemsOf(scan_outcome.list[i]) :
                P(ItemsOf(ParsedReceipts[i])[j], ItemsOf(scan_outcome.list[i])[j])

\* a number that is present and not zero
NonZero(v) == v.t = "scalar" /\ v.tok \in NumberLexemes \cup {T_float} /\ v.n # 0

\* zero, null or missing
ZeroNullMissing(v) ==
    \/ v = JsonAbsent
    \/ v.t = "scalar" /\ v.tok = V_null
    \/ v.t = "scalar" /\ v.tok \in NumberLexemes \cup {T_float} /\ v.n = 0

\* C12: the normaliser applied to a receipt it returned gives that receipt
\* again, field for field
NormaliserIdempotent ==
    scan_outcome.kind = "list" =>
        \A i \in DOMAIN scan_outcome.list :
            /\ ~ValidateAndCleanRaises(scan_outcome.list[i])
            /\ ValidateAndClean(scan_outcome.list[i]) = scan_outcome.list[i]

DerivedZero(before, after) ==
    /\ JsonGet(before, K_unit_price) = JsonAbsent
    /\ NonZero(JsonGet(before, K_line_total))
    /\ JsonGet(after, K_unit_price) = PyFloat(0)

DerivedValueRoundsToZero == SomeReturnedItem(DerivedZero)

\* what derived-field completion makes of a line
Completed(before, after) ==
    LET q == JsonGet(before, K_quantity)
        up == JsonGet(before, K_unit_price)
        lt == JsonGet(before, K_line_total)
    IN  /\ (ZeroNullMissing(up) /\ NonZero(q) /\ NonZero(lt)) =>
               JsonGet(after, K_unit_price) = PyFloat(Round2(lt.n, q.n))
        /\ (ZeroNullMissing(lt) /\ NonZero(up) /\ NonZero(q)) =>
               JsonGet(after, K_line_total) = PyFloat(Round2(up.n * q.n, 1000000))
        /\ (NonZero(up) /\ NonZero(lt)) =>
               /\ JsonGet(after, K_unit_price) = up
               /\ JsonGet(after, K_line_total) = lt

\* C13: a line with unit_price zero, null or missing and quantity and line_total
\* non-zero gets unit_price = round(line_total / quantity, 2); one with
\* line_total zero, null or missing and unit_price and quantity non-zero gets
\* line_total = round(unit_price * quantity, 2); one with unit_price and
\* line_total both non-zero keeps both
DerivedFieldCompletion == AllReturnedItems(Completed)

DerivedBoth(before, after) ==
    /\ ZeroNullMissing(JsonGet(before, K_unit_price))
    /\ JsonGet(before, K_quantity).n > 1000
    /\ JsonGet(after, K_unit_price).n > 0
    /\ JsonGet(after, K_unit_price).n * JsonGet(before, K_quantity).n
           # 1000 * JsonGet(before, K_line_total).n

UnitPriceDerivedAndRounded == SomeReturnedItem(DerivedBoth)

\* what "absent or outside the enumeration becomes the fallback, valid stays"
\* makes of a value
Normalised(before, enum, fallback) ==
    IF before.t = "scalar" /\ before.tok \in enum THEN before
    ELSE JsonValue("scalar", fallback, <<>>, <<>>)

EnumsOfItem(before, after) ==
    /\ JsonGet(after, K_category)
           = Normalised(JsonGet(before, K_category), VALID_ITEM_CATEGORIES, S_Other)
    /\ JsonGet(after, K_unit) = Normalised(JsonGet(before, K_unit), VALID_UNITS, S_each)
    /\ JsonGet(after, K_category).tok \in VALID_ITEM_CATEGORIES
    /\ JsonGet(after, K_unit).tok \in VALID_UNITS

\* C14: in a returned list every store_category, every item category and every
\* item unit is in its enumeration: the value the model wrote when that was in
\* the enumeration, and otherwise 'Other' (categories) or 'each' (units)
EnumerationsEnforced ==
    /\ AllReturnedItems(EnumsOfItem)
    /\ scan_outcome.kind = "list" =>
        \A i \in DOMAIN scan_outcome.list :
            /\ JsonGet(scan_outcome.list[i], K_store_category).tok \in VALID_STORE_CATEGORIES
            /\ JsonGet(scan_outcome.list[i], K_store_category)
                   = Normalised(JsonGet(ParsedReceipts[i], K_store_category),
                                VALID_STORE_CATEGORIES, S_Other)

ReplacedAndKept(before, after) ==
    /\ JsonGet(before, K_category).tok = "\"Pharmacy\""
    /\ JsonGet(after, K_category).tok = S_Other
    /\ JsonGet(before, K_unit).tok = "\"kg\""
    /\ JsonGet(after, K_unit).tok = "\"kg\""

InvalidCategoryReplaced == SomeReturnedItem(ReplacedAndKept)

\* C15: in a returned list every payment_method is null (or missing) or one of
\* Cash, Credit, Debit, Other
PaymentMethodNormalised ==
    scan_outcome.kind = "list" =>
        \A i \in DOMAIN scan_outcome.list :
            LET pm == JsonGet(scan_outcome.list[i], K_payment_method)
            IN  \/ pm = JsonAbsent
                \/ pm.t = "scalar" /\ pm.tok \in PaymentMethods \cup {V_null}

\* C20: a parsed object is returned as the list of the one normalised object, a
\* parsed array as the list of its normalised elements in their order, and any
\* other parsed value as the error 'Unexpected AI response format'
TopLevelShapeHandled ==
    (scan_pc = "done" /\ raw # <<>> /\ scan_outcome.exc # "APIError"
        /\ ParseOrRepair(raw).ok) =>
        LET value == ParseOrRepair(raw).value
        IN  IF value.t \in {"dict", "list"}
            THEN /\ scan_outcome.kind = "list"
                 /\ Len(scan_outcome.list) = Len(ReceiptsOf(value))
                 /\ \A i \in DOMAIN scan_outcome.list :
                        scan_outcome.list[i] = ValidateAndClean(ReceiptsOf(value)[i])
            ELSE scan_outcome = ScanError(UnexpectedFormat)

\* what holds of the calls made so far: at most two model calls, the second one
\* the first with the partial answer as assistant message and the request to go
\* on; at most two parses, of the text and then of the repaired text
CallsSoFar ==
    /\ Len(requests) <= 2
    /\ Len(requests) = 2 =>
        /\ finish_reason = "length"
        /\ Len(requests[2]) = 3
        /\ requests[2][1] = requests[1][1]
        /\ requests[2][2].role = "assistant"
        /\ requests[2][2].text # <<>>
        /\ StartsWith(raw, requests[2][2].text)
        /\ requests[2][3].role = "user"
    /\ (scan_pc = "done" /\ finish_reason = "length" /\ raw # <<>>) => Len(requests) = 2
    /\ Len(extract_calls) <= 2
    /\ extract_calls # <<>> =>
        /\ extract_calls[1] = raw
        /\ Len(extract_calls) = 2 =>
            /\ ~ExtractJson(raw).ok
            /\ extract_calls[2] = RepairJson(raw)

\* C26: the model is called at most twice; the continuation call is issued
\* exactly when the first answer is non-empty and its finish_reason is 'length',
\* it carries the partial answer as assistant context, its text is appended to
\* the first answer before parsing, and no third call follows; parsing is
\* attempted at most twice, on the text and then on the one repaired text
TruncationRecovery ==
    /\ []CallsSoFar
    /\ [][/\ scan_pc = "continue" =>
                /\ Len(requests') = 2
                /\ requests'[2][2].text = raw
                /\ scan_pc' = "done"
          /\ Len(requests') = 2 => scan_pc = "continue"]_vars

\* a cut answer was continued, the continuation appended, and the whole, cut
\* again, parsed after the repair
ContinuedAndRepaired ==
    /\ scan_pc = "done"
    /\ Len(requests) = 2
    /\ Len(raw) > Len(requests[2][2].text)
    /\ Len(extract_calls) = 2
    /\ scan_outcome.kind = "list"

\* the MIME type the spec derives from the extension of the encoded file
MimeOfExtension ==
    CASE EncodedExt = ".png" -> "image/png"
      [] EncodedExt = ".gif" -> "image/gif"
      [] EncodedExt = ".webp" -> "image/webp"
      [] OTHER -> "image/jpeg"

\* C27: when _resize_image_if_needed fails, _encode_image returns the original
\* file's bytes with the MIME type of the file's extension (image/jpeg for an
\* unknown one) and the extraction goes on to the model call with them; it
\* ends with 'Failed to process image' only when the original file could not be
\* read either, and then without a model call
FallbackToRawBytes ==
    /\ encoded.source = "raw" =>
        /\ encoded.mime = MimeOfExtension
        /\ scan_pc \in {"call", "continue", "done"}
        /\ scan_outcome.error # FailedToProcess
        /\ scan_pc \in {"continue", "done"} =>
            /\ requests # <<>>
            /\ requests[1][1].image = encoded
    /\ scan_outcome.error = FailedToProcess =>
        /\ encoded = NotEncoded
        /\ requests = <<>>

\* an upload of unknown extension that could not be re-encoded was sent as it
\* is, tagged image/jpeg, and the extraction returned receipts
RawBytesSentAndParsed ==
    /\ image_ext = ".heic"
    /\ encoded = [source |-> "raw", mime |-> "image/jpeg"]
    /\ scan_outcome.kind = "list"
    /\ scan_outcome.receipts > 0

(***************************************************************************)
(* Properties of the /api/scan route                                       *)
(***************************************************************************)
\* C29: for a PDF upload whose scan succeeds, the rasterised first page the
\* scanner wrote still exists when the route looks for it; the route answers
\* every receipt with the page's content as photo_data (unless reading it
\* raised) and then deletes the page
PdfPhotoHandedOver ==
    [][(route_pc = "scanning" /\ route_pc' = "done" /\ image_ext = ".pdf"
            /\ response'.status = 200) =>
        /\ Page0 \in disk
        /\ response'.photo_data \in {Page0, "None"}
        /\ response'.photo_data = Page0 => Page0 \notin disk']_vars

(***************************************************************************)
(* Properties of _resize_image_if_needed                                   *)
(***************************************************************************)
\* the qualities the loop saves with: 75 and the steps of 10 below it
QualitySteps == {75, 65, 55, 45, 35, 25}

\* the loop lowers the quality from 75 in steps of 10, goes on only while the
\* encoding is over budget and the quality above 30, and so ends
LoopSteps ==
    [][/\ quality' # quality => quality' = IF quality = 0 THEN 75 ELSE quality - 10
       /\ quality' \in QualitySteps \cup {0}
       /\ (resize_pc = "loop" /\ quality' # quality) => (buffer > max_bytes /\ quality > 30)
       /\ (resize_pc = "loop" /\ resize_pc' = "done") =>
              (buffer <= max_bytes \/ quality <= 30)]_vars

\* C21 as stated: whenever _resize_image_if_needed returns, the bytes are at
\* most max_bytes and width and height at most max_dimension; the quality goes
\* down from 75 in steps of 10 until the size is within budget or the floor is
\* reached
ResizeOutputBounded ==
    /\ [](resize_result.kind = "bytes" =>
            /\ resize_result.bytes <= max_bytes
            /\ resize_result.width <= max_dimension
            /\ resize_result.height <= max_dimension)
    /\ LoopSteps

\* C21: whenever _resize_image_if_needed returns, width and height are at most
\* max_dimension, and the bytes are at most max_bytes unless the loop ended at
\* the quality floor (quality 25, after five re-encodings), where the last
\* encoding is returned whatever its size; the quality goes down from 75 in
\* steps of 10 while the size is over budget and the quality above 30
ResizeOutputBoundedAboveFloor ==
    /\ [](resize_result.kind = "bytes" =>
            /\ resize_result.bytes <= max_bytes \/ quality = 25
            /\ resize_result.bytes = buffer
            /\ resize_result.width <= max_dimension
            /\ resize_result.height <= max_dimension
            /\ resize_result.width > 0
            /\ resize_result.height > 0)
    /\ LoopSteps

\* an image with a side over max_dimension was scaled down and its encoding
\* came within budget after the quality was lowered
ScaledAndWithinBudget ==
    /\ resize_result.kind = "bytes"
    /\ img.width = max_dimension
    /\ img.height < max_dimension
    /\ quality \in {65, 55, 45, 35}
    /\ resize_result.bytes <= max_bytes

(***************************************************************************)
(* Properties of /login and /signup                                        *)
(***************************************************************************)
\* no more than RATE_LIMIT_ATTEMPTS failed password checks in a row, with no
\* successful login between them, lie within RATE_LIMIT_WINDOW seconds
FailedChecksLimited ==
    \A i, j \in DOMAIN checks :
        (j >= i + RATE_LIMIT_ATTEMPTS /\ \A k \in i..j : ~checks[k].ok) =>
            checks[j].time - checks[i].time >= RATE_LIMIT_WINDOW

\* C28: for one address and any 60-second window, /login makes at most
\* RATE_LIMIT_ATTEMPTS failed password checks unless a login succeeded in
\* between, whatever the sequence and interleaving of /login and /signup
\* requests: attempts leave the list only by a successful login (or by growing
\* older than the window), and a rate-limited request checks no password and
\* records no attempt
LoginRateLimit ==
    /\ []FailedChecksLimited
    /\ [][/\ (\E k \in DOMAIN login_attempts :
                  /\ login_attempts[k] > now - RATE_LIMIT_WINDOW
                  /\ \A m \in DOMAIN login_attempts' : login_attempts'[m] # login_attempts[k]) =>
                (checks' # checks /\ checks'[Len(checks')].ok)
          /\ IsRateLimited(CleanOld(login_attempts, now)) =>
                (checks' = checks /\ Len(login_attempts') <= Len(login_attempts))]_vars

(***************************************************************************)
(* Properties of /api/receipts                                             *)
(***************************************************************************)
\* the normalized names request r hands to _upsert_normalized
UpsertedNames(r) ==
    IF api[r].method = "PUT" /\ api[r].data.has_items
          /\ api[r].data.receipt_id \in DOMAIN receipt_rows
    THEN Range(api[r].data.items) \ {"None"}
    ELSE {}

\* request r has ended with its line items and their normalized names stored
ItemsPersisted(r) ==
    /\ api[r].response.status = 200
    /\ UpsertedNames(r) \subseteq Range(normalized_items)
    /\ \/ line_items[api[r].data.receipt_id] = api[r].data.items
       \/ \E q \in ApiRequests \ {r} :
            /\ api[q].data.receipt_id = api[r].data.receipt_id
            /\ api[q].response.status = 200
            /\ api[q].data.has_items

\* C23: two requests of the user that save line items with a common normalized
\* name both end with their line items persisted, neither fails because of
\* the other, and the table holds one row for each (user_id, name)
NormalizedWritesHarmless ==
    /\ \A i, j \in DOMAIN normalized_items :
        normalized_items[i] = normalized_items[j] => i = j
    /\ \A r, q \in ApiRequests :
        (/\ r # q
         /\ UpsertedNames(r) \cap UpsertedNames(q) # {}
         /\ api[r].pc = "done"
         /\ api[q].pc = "done") => ItemsPersisted(r)

\* a store name trimmed and in lower case
Canonical(name) == Lower(Strip(IF name = NoneText THEN <<>> ELSE name))

\* the stored receipts with the date, the total, the store and the number of
\* line items of a request body
AlikeStored(data) ==
    {id \in DOMAIN receipt_rows :
        /\ receipt_rows[id].receipt_date = data.receipt_date
        /\ receipt_rows[id].total = data.total
        /\ Canonical(receipt_rows[id].store_name) = Canonical(data.store_name)
        /\ Len(line_items[id]) = Len(data.items)}

NoTwoReceiptsAlike ==
    \A a, b \in DOMAIN receipt_rows :
        (/\ receipt_rows[a].receipt_date = receipt_rows[b].receipt_date
         /\ receipt_rows[a].total = receipt_rows[b].total
         /\ Canonical(receipt_rows[a].store_name) = Canonical(receipt_rows[b].store_name)
         /\ Len(line_items[a]) = Len(line_items[b])) => a = b

DuplicateAnswered409 ==
    \A r \in ApiRequests :
        (/\ api[r].pc = "done"
         /\ api[r].method = "POST"
         /\ api[r].data # NoData
         /\ AlikeStored(api[r].data) # {}) =>
            /\ api[r].response.status = 409
            /\ api[r].response.duplicate_id \in AlikeStored(api[r].data)

====
